---- MODULE Spec2Model ----
(***************************************************************************)
(* Model of the retrieval core of the Regulatory-Agent repository:         *)
(*   - content-addressed indexing   (src/indexer.py, src/db.py)            *)
(*   - query expansion              (src/utilities.py)                     *)
(*   - numeric-relevance ranking    (src/utilities.py)                     *)
(*   - the per-question retrieval loop (src/utilities.py, langchain/db.py) *)
(*   - page chunking                (src/chunker.py)                       *)
(*   - lexical indexing             (src/indexer.py, index_whoosh)         *)
(* Each component has its own specification (SpecIndex, SpecExpand,        *)
(* SpecRank, SpecQuery, SpecChunk, SpecWhoosh); the variables of the other *)
(* components stay idle.                                                   *)
(* Texts whose characters matter (questions, passages) are sequences of    *)
(* one-character strings; opaque texts (chunk contents) are strings.       *)
(***************************************************************************)
EXTENDS Integers, Sequences, FiniteSets, TLC

VARIABLES
    \* ---- indexing (Indexer.index / DB.index) ----
    impl,             \* "Indexer" (src/indexer.py) or "DB" (src/db.py)
    chunked_content,  \* the chunk list handed to the indexer
    batch_size,       \* batch_size of the call
    collection,       \* the dense backend's stored entries, in insertion order
    ready,            \* [ids, texts, metadatas] returned by get_ready()
    i,                \* loop variable of the batch loop
    submitted,        \* log of the collection.add calls of the current index() call
    ipc,              \* "call" | "batch" | "done"
    run,              \* number of index() calls begun
    after_first,      \* collection when the first index() call returned
    first_failed,     \* some batch of the first index() call failed
    \* ---- query expansion (extract_retrieval_queries) ----
    user_question, exclude_keywords, must_include, queries, epc,
    \* ---- ranking step (the two sorts and the truncation) ----
    rk_input, rk_top_k, rk_output, rk_context, rpc,
    \* ---- one question of query_discom_orders ----
    dense_docs,       \* texts held by the dense collection
    whoosh_docs,      \* texts held by the lexical index
    caller,           \* "query_discom_orders" (utilities.py) or "main" (main.py)
    question, ques, qi, all_results, contributions, dense_calls, context,
    raised, asked, qpc,
    \* ---- Chunker.chunk (src/chunker.py) ----
    document,              \* self.document: the pages handed to the Chunker
    chunk_size, overlap,   \* constructor parameters
    self_chunked_content,  \* self.chunked_content
    origin,                \* for each entry of self.chunked_content, the index
                           \* in document of the page it was made from
    page_index,            \* position of the for loop in self.document
    chunk_result,          \* value returned by the last chunk() call
    first_result,          \* value the first chunk() call returned, as it was
                           \* when that call returned
    chunk_failed,          \* the last chunk() call ended in its except branch
    chunk_calls,           \* number of chunk() calls begun
    cpc,                   \* "new" | "loop" | "returned"
    \* ---- Indexer.index_whoosh (src/indexer.py) ----
    w_chunked_content,     \* self.chunked_content of the Indexer
    w_batch_size,          \* self.batch_size
    whoosh_index,          \* documents of the committed lexical index
    writer,                \* documents added to the open writer, not committed
    w_ready,               \* [ids, texts, metadatas] returned by get_ready()
    w_i, w_j,              \* loop variables i (batch start) and j (in batch)
    w_failed,              \* failed batches of the current call: [lo, hi, at]
    w_raised,              \* "no", or the step whose exception left the call
    w_run,                 \* number of index_whoosh() calls begun
    wpc,                   \* "new" | "open" | "batch" | "returned" | "raised"
    \* ---- one call of score_numeric_richness (src/utilities.py) ----
    sc_text,               \* the passage scored
    sc_value,              \* the value returned
    spc,                   \* "ready" | "scored"
    \* ---- DB.query (src/db.py, src/langchain/db.py) ----
    dq_docs,               \* texts held by self.collection
    dq_queries,            \* the queries argument
    dq_top_k,              \* the top_k argument
    retreival,             \* what collection.query returned (documents: one
                           \* list per query text), <<>> before the call
    dq_result,             \* the value query() returned
    dqpc,                  \* "idle" | "called" | "returned"
    \* ---- TokenBucket (src/llamindex/utils/rate_limiter.py) ----
    capacity,              \* self.capacity
    tokens,                \* self.tokens
    refill_rate_per_second,\* self.refill_rate_per_second (tokens per tick)
    last_refill_time,      \* self.last_refill_time
    lock,                  \* self.lock: the thread holding it, 0 when free
    monotonic,             \* time.monotonic(), in ticks
    tb_op,                 \* per thread: the method it is in
    tokens_needed,         \* per thread: the argument of its call
    at_entry,              \* per thread: self.tokens when it took the lock
    tb_result,             \* per thread: how its last call ended
    tbpc,                  \* per thread: position in the method
    \* ---- rate_limited (src/llamindex/regulatory_tool_calling_test.py) ----
    max_calls_per_minute,  \* the decorator's argument
    last_reset,            \* closure variable last_reset
    call_count,            \* closure variable call_count
    wall_clock,            \* time.time(), in seconds
    current_time,          \* per worker: its local current_time
    wake_at,               \* per worker: when its time.sleep(sleep_time) ends
    time_read,             \* per worker: what time.time() returned on line 55
    loaded_count,          \* per worker: call_count as read by call_count += 1
    passed,                \* wrapper calls that went on to func since the
                           \* last counter reset
    rlpc                   \* per worker: position in wrapper

indexVars  == <<impl, chunked_content, batch_size, collection, ready, i,
                submitted, ipc, run, after_first, first_failed>>
expandVars == <<user_question, exclude_keywords, must_include, queries, epc>>
rankVars   == <<rk_input, rk_top_k, rk_output, rk_context, rpc>>
queryVars  == <<dense_docs, whoosh_docs, caller, question, ques, qi, all_results,
                contributions, dense_calls, context, raised, asked, qpc>>
chunkVars  == <<document, chunk_size, overlap, self_chunked_content, origin,
                page_index, chunk_result, first_result, chunk_failed,
                chunk_calls, cpc>>
whooshVars == <<w_chunked_content, w_batch_size, whoosh_index, writer, w_ready,
                w_i, w_j, w_failed, w_raised, w_run, wpc>>
scoreVars  == <<sc_text, sc_value, spc>>
dbqVars == <<dq_docs, dq_queries, dq_top_k, retreival, dq_result, dqpc>>
bucketVars == <<capacity, tokens, refill_rate_per_second, last_refill_time, lock,
               monotonic, tb_op, tokens_needed, at_entry, tb_result, tbpc>>
limiterVars == <<max_calls_per_minute, last_reset, call_count, wall_clock,
                current_time, wake_at, time_read, loaded_count, passed, rlpc>>
vars == <<indexVars, expandVars, rankVars, queryVars, chunkVars, whooshVars,
         scoreVars,
         dbqVars,
         bucketVars,
         limiterVars>>

\* ------------------------------------------------------------------------
\* Generic helpers
\* ------------------------------------------------------------------------
Range(s) == {s[k] : k \in 1..Len(s)}

SeqsUpTo(S, n) == UNION {[1..k -> S] : k \in 0..n}

Min(a, b) == IF a <= b THEN a ELSE b

\* Python slice s[lo:hi] with 0-based lo, exclusive hi (both within range).
Slice(s, lo, hi) == SubSeq(s, lo + 1, hi)

\* ------------------------------------------------------------------------
\* Indexing: bounds and input domains
\* ------------------------------------------------------------------------
MaxChunks == 3

\* Chunks the parser/chunker can hand over: the same content may occur on
\* two pages.
ChunkPool ==
    { [content |-> "a", page_number |-> 1, source |-> "doc.pdf"],
      [content |-> "a", page_number |-> 2, source |-> "doc.pdf"],
      [content |-> "b", page_number |-> 1, source |-> "doc.pdf"],
      [content |-> "c", page_number |-> 2, source |-> "doc.pdf"] }

BatchSizes == {1, 2}

\* hashlib.blake2b(content.encode()).hexdigest(): a digest of the content
\* alone; distinct contents have distinct digests (collision-free on the
\* modelled domain), and the digest differs from the content itself.
blake2b(content) == "blake2b:" \o content

\* A plausible slip: the page number takes part in the id.
chunk_id_with_page(chunk) ==
    blake2b(chunk["content"]) \o (IF chunk["page_number"] = 1 THEN "@1" ELSE "@2")

\* indexer.py:19 / db.py:32 -- the id of a chunk.
chunk_id(chunk) == blake2b(chunk["content"])

chunk_metadata(chunk) ==
    [page_number |-> chunk["page_number"], source |-> chunk["source"]]

EmptyReady == [ids |-> <<>>, texts |-> <<>>, metadatas |-> <<>>]

\* db.py:26-36 -- DB.get_ready: one entry per chunk, no deduplication.
DB_get_ready(chunks) ==
    [ids       |-> [k \in 1..Len(chunks) |-> chunk_id(chunks[k])],
     texts     |-> [k \in 1..Len(chunks) |-> chunks[k]["content"]],
     metadatas |-> [k \in 1..Len(chunks) |-> chunk_metadata(chunks[k])]]

\* indexer.py:18-27 -- the loop of Indexer.get_ready from chunk k on.
RECURSIVE get_ready_loop(_, _, _, _)
get_ready_loop(chunks, k, check, acc) ==
    IF k > Len(chunks) THEN acc
    ELSE LET temp == chunk_id(chunks[k]) IN
         IF temp \notin check
         THEN get_ready_loop(chunks, k + 1, check \cup {temp},
                  [ids       |-> Append(acc.ids, temp),
                   texts     |-> Append(acc.texts, chunks[k]["content"]),
                   metadatas |-> Append(acc.metadatas, chunk_metadata(chunks[k]))])
         ELSE get_ready_loop(chunks, k + 1, check, acc)

\* The seen-hash check is missing: every chunk is kept.
get_ready_without_check(chunks) ==
    [ids       |-> [k \in 1..Len(chunks) |-> chunk_id(chunks[k])],
     texts     |-> [k \in 1..Len(chunks) |-> chunks[k]["content"]],
     metadatas |-> [k \in 1..Len(chunks) |-> chunk_metadata(chunks[k])]]

\* indexer.py:11-29 -- Indexer.get_ready.
Indexer_get_ready(chunks) == get_ready_loop(chunks, 1, {}, EmptyReady)

get_ready(which, chunks) ==
    IF which = "Indexer" THEN Indexer_get_ready(chunks) ELSE DB_get_ready(chunks)

CollectionIds(coll) == {coll[k].id : k \in 1..Len(coll)}

\* collection.add(documents, metadatas, ids) that succeeds: the backend
\* stores the entries in order and skips every id it already holds.
RECURSIVE collection_add(_, _, _, _)
collection_add(coll, ids, texts, metadatas) ==
    IF ids = <<>> THEN coll
    ELSE LET entry == [id |-> Head(ids), text |-> Head(texts),
                       metadata |-> Head(metadatas)]
             next  == IF entry.id \in CollectionIds(coll) THEN coll
                      ELSE Append(coll, entry)
         IN collection_add(next, Tail(ids), Tail(texts), Tail(metadatas))

\* A failed batch ends the whole loop (the exception is not contained).
after_failed_batch_abort(lo, n, b) == n

\* indexer.py:53-54 / db.py:59-60 -- the except clause only prints; the
\* for loop goes on with the next batch start.
after_failed_batch(lo, n, b) == lo + b

\* ------------------------------------------------------------------------
\* Indexing: actions
\* ------------------------------------------------------------------------
IndexIdle ==
    /\ impl = "Indexer" /\ chunked_content = <<>> /\ batch_size = 1
    /\ collection = <<>> /\ ready = EmptyReady /\ i = 0 /\ submitted = <<>>
    /\ ipc = "idle" /\ run = 0 /\ after_first = <<>> /\ first_failed = FALSE

ExpandIdle ==
    /\ user_question = <<>> /\ exclude_keywords = <<>> /\ must_include = <<>>
    /\ queries = <<>> /\ epc = "idle"

RankIdle ==
    /\ rk_input = <<>> /\ rk_top_k = 0 /\ rk_output = <<>>
    /\ rk_context = <<>> /\ rpc = "idle"

QueryIdle ==
    /\ dense_docs = <<>> /\ whoosh_docs = <<>> /\ caller = "none"
    /\ question = <<>>
    /\ ques = <<>> /\ qi = 0 /\ all_results = <<>> /\ contributions = <<>>
    /\ dense_calls = 0 /\ context = <<>> /\ raised = "no" /\ asked = FALSE
    /\ qpc = "idle"

ChunkIdle ==
    /\ document = <<>> /\ chunk_size = 0 /\ overlap = 0
    /\ self_chunked_content = <<>> /\ origin = <<>> /\ page_index = 0
    /\ chunk_result = <<>> /\ chunk_failed = FALSE /\ chunk_calls = 0
    /\ first_result = <<>>
    /\ cpc = "idle"

WhooshIdle ==
    /\ w_chunked_content = <<>> /\ w_batch_size = 1 /\ whoosh_index = <<>>
    /\ writer = <<>> /\ w_ready = EmptyReady /\ w_i = 0 /\ w_j = 0
    /\ w_failed = <<>> /\ w_raised = "no" /\ w_run = 0 /\ wpc = "idle"

ScoreIdle ==
    /\ sc_text = <<>> /\ sc_value = 0 /\ spc = "idle"

DBQIdle ==
    /\ dq_docs = <<>> /\ dq_queries = <<>> /\ dq_top_k = 0
    /\ retreival = <<>> /\ dq_result = [returned |-> "nothing"]
    /\ dqpc = "idle"

BucketIdle ==
    /\ capacity = 0 /\ tokens = 0 /\ refill_rate_per_second = 0
    /\ last_refill_time = 0 /\ lock = 0 /\ monotonic = 0
    /\ tb_op = <<>> /\ tokens_needed = <<>> /\ at_entry = <<>>
    /\ tb_result = <<>> /\ tbpc = <<>>

LimiterIdle ==
    /\ max_calls_per_minute = 0 /\ last_reset = 0 /\ call_count = 0
    /\ wall_clock = 0 /\ current_time = <<>> /\ wake_at = <<>>
    /\ time_read = <<>> /\ loaded_count = <<>> /\ passed = 0 /\ rlpc = <<>>

InitIndex ==
    /\ impl \in {"Indexer", "DB"}
    /\ chunked_content \in SeqsUpTo(ChunkPool, MaxChunks)
    /\ batch_size \in BatchSizes
    /\ collection = <<>>
    /\ ready = EmptyReady /\ i = 0 /\ submitted = <<>>
    /\ ipc = "call" /\ run = 0
    /\ after_first = <<>> /\ first_failed = FALSE
    /\ ExpandIdle /\ RankIdle /\ QueryIdle /\ ChunkIdle /\ WhooshIdle /\ ScoreIdle /\ DBQIdle /\ BucketIdle /\ LimiterIdle

notIndexVars == <<expandVars, rankVars, queryVars, chunkVars,
                 whooshVars,
                 scoreVars,
                 dbqVars,
                 bucketVars,
                 limiterVars>>

\* indexer.py:31-34 / db.py:38-40 -- index() is entered: get_ready().
IndexCall ==
    /\ ipc = "call"
    /\ ready' = get_ready(impl, chunked_content)
    /\ i' = 0
    /\ submitted' = <<>>
    /\ run' = run + 1
    /\ ipc' = "batch"
    /\ UNCHANGED <<impl, chunked_content, batch_size, collection,
                   after_first, first_failed>>
    /\ UNCHANGED notIndexVars

BatchEnd == Min(i + batch_size, Len(ready.ids))

\* The three slices with the texts taken from the start of the list.
batch_slices_misaligned(rdy, lo, hi) ==
    [ids       |-> Slice(rdy.ids, lo, hi),
     texts     |-> Slice(rdy.texts, 0, hi - lo),
     metadatas |-> Slice(rdy.metadatas, lo, hi)]

\* indexer.py:39-41 / db.py:45-47 -- batch_ids, batch_texts, batch_metadatas.
batch_slices(rdy, lo, hi) ==
    [ids       |-> Slice(rdy.ids, lo, hi),
     texts     |-> Slice(rdy.texts, lo, hi),
     metadatas |-> Slice(rdy.metadatas, lo, hi)]

\* indexer.py:37-51 / db.py:43-57 -- one batch whose collection.add succeeds.
IndexBatchOk ==
    /\ ipc = "batch"
    /\ i < Len(ready.ids)
    /\ LET batch == batch_slices(ready, i, BatchEnd) IN
       /\ collection' = collection_add(collection, batch.ids, batch.texts,
                                       batch.metadatas)
       /\ submitted' = Append(submitted, [lo |-> i, hi |-> BatchEnd, ok |-> TRUE,
                                          batch |-> batch])
    /\ i' = i + batch_size
    /\ UNCHANGED <<impl, chunked_content, batch_size, ready, ipc, run,
                   after_first, first_failed>>
    /\ UNCHANGED notIndexVars

\* indexer.py:45-54 / db.py:51-60 -- one batch whose collection.add raises
\* (backend unavailable, rejected batch, collection is None): nothing of the
\* batch is stored, the exception is caught and printed.
IndexBatchFail ==
    /\ ipc = "batch"
    /\ i < Len(ready.ids)
    /\ submitted' = Append(submitted, [lo |-> i, hi |-> BatchEnd, ok |-> FALSE,
                                       batch |-> batch_slices(ready, i, BatchEnd)])
    /\ i' = after_failed_batch(i, Len(ready.ids), batch_size)
    /\ first_failed' = (first_failed \/ run = 1)
    /\ UNCHANGED <<impl, chunked_content, batch_size, collection, ready, ipc,
                   run, after_first>>
    /\ UNCHANGED notIndexVars

\* indexer.py:56-57 / db.py:62-63 -- the loop is over, index() returns.
IndexReturn ==
    /\ ipc = "batch"
    /\ i >= Len(ready.ids)
    /\ ipc' = "done"
    /\ after_first' = IF run = 1 THEN collection ELSE after_first
    /\ UNCHANGED <<impl, chunked_content, batch_size, collection, ready, i,
                   submitted, run, first_failed>>
    /\ UNCHANGED notIndexVars

\* index() is called a second time over the same chunk set (re-indexing).
IndexAgain ==
    /\ ipc = "done"
    /\ run = 1
    /\ ipc' = "call"
    /\ UNCHANGED <<impl, chunked_content, batch_size, collection, ready, i,
                   submitted, run, after_first, first_failed>>
    /\ UNCHANGED notIndexVars

NextIndex ==
    \/ IndexCall
    \/ IndexBatchOk
    \/ IndexBatchFail
    \/ IndexReturn
    \/ IndexAgain

SpecIndex == InitIndex /\ [][NextIndex]_vars

\* ------------------------------------------------------------------------
\* Indexing: properties
\* ------------------------------------------------------------------------
ContentsOf(chunks) == {chunks[k]["content"] : k \in 1..Len(chunks)}

EntriesWithText(coll, c) == {k \in 1..Len(coll) : coll[k].text = c}

\* C1 -- Idempotent indexing: when Indexer.index() has run twice over the
\* same chunk set against a backend whose add skips the ids it holds, the
\* collection keeps every id of the first run, holds no id twice and no
\* content twice; when no batch of the first run failed, it has exactly the
\* id set it had after the first run and exactly one entry per distinct
\* chunk content.
C1_IdempotentIndexing ==
    (impl = "Indexer" /\ ipc = "done" /\ run = 2) =>
        /\ CollectionIds(after_first) \subseteq CollectionIds(collection)
        /\ \A k, l \in 1..Len(collection) :
               collection[k].id = collection[l].id => k = l
        /\ \A c \in ContentsOf(chunked_content) :
               Cardinality(EntriesWithText(collection, c)) <= 1
        /\ ~first_failed =>
               /\ CollectionIds(collection) = CollectionIds(after_first)
               /\ \A c \in ContentsOf(chunked_content) :
                      Cardinality(EntriesWithText(collection, c)) = 1
               /\ Len(collection) = Cardinality(ContentsOf(chunked_content))

\* C1 witness: a second run has returned over a chunk list that repeats a
\* content and holds at least two distinct contents.
C1_Witness ==
    /\ impl = "Indexer" /\ ipc = "done" /\ run = 2 /\ ~first_failed
    /\ Len(collection) >= 2
    /\ Len(chunked_content) > Len(collection)

\* Index of the first chunk of the input whose content is c.
FirstOccurrence(chunks, c) ==
    CHOOSE k \in 1..Len(chunks) :
        /\ chunks[k]["content"] = c
        /\ \A l \in 1..(k - 1) : chunks[l]["content"] # c

\* C2 -- Indexer.get_ready(): the ids are pairwise distinct, follow the
\* order of first occurrence of each distinct content, texts[k] and
\* metadatas[k] are the content and page_number/source of that first
\* occurrence, and every distinct content of the input appears exactly once.
C2_GetReadyFirstSeen ==
    (impl = "Indexer" /\ ipc \in {"batch", "done"}) =>
        LET n == Len(ready.ids) IN
        /\ Len(ready.texts) = n /\ Len(ready.metadatas) = n
        /\ \A k, l \in 1..n : ready.ids[k] = ready.ids[l] => k = l
        /\ \A k \in 1..n :
               /\ ready.texts[k] \in ContentsOf(chunked_content)
               /\ ready.ids[k] = blake2b(ready.texts[k])
               /\ LET f == FirstOccurrence(chunked_content, ready.texts[k]) IN
                  /\ ready.metadatas[k].page_number = chunked_content[f]["page_number"]
                  /\ ready.metadatas[k].source = chunked_content[f]["source"]
        /\ \A k, l \in 1..n :
               k < l => FirstOccurrence(chunked_content, ready.texts[k])
                          < FirstOccurrence(chunked_content, ready.texts[l])
        /\ \A c \in ContentsOf(chunked_content) :
               Cardinality({k \in 1..n : ready.texts[k] = c}) = 1

\* C2 witness: get_ready() has dropped a repeat whose page differs from the
\* first occurrence's, and kept two distinct contents.
C2_Witness ==
    /\ impl = "Indexer" /\ ipc = "batch"
    /\ Len(ready.ids) = 2
    /\ \E k, l \in 1..Len(chunked_content) :
           /\ k < l
           /\ chunked_content[k]["content"] = chunked_content[l]["content"]
           /\ chunked_content[k]["page_number"] # chunked_content[l]["page_number"]

BatchStarts == {lo \in 0..(Len(ready.ids) - 1) : lo % batch_size = 0}

\* C3 -- Batch partial failure (Indexer.index and DB.index): when index()
\* returns, every batch has been submitted exactly once whatever batches
\* failed, and every entry of every batch whose add succeeded is in the
\* collection.
C3_BatchPartialFailure ==
    (ipc = "done") =>
        /\ Len(submitted) = Cardinality(BatchStarts)
        /\ \A lo \in BatchStarts :
               Cardinality({k \in 1..Len(submitted) : submitted[k].lo = lo}) = 1
        /\ \A k \in 1..Len(submitted) :
               submitted[k].ok =>
                   \A j \in (submitted[k].lo + 1)..submitted[k].hi :
                       \E e \in 1..Len(collection) :
                           /\ collection[e].id = ready.ids[j]
                           /\ collection[e].text = ready.texts[j]

\* C3 witness: index() has returned after a failed batch that was followed
\* by a batch whose add succeeded.
C3_Witness ==
    /\ ipc = "done"
    /\ \E k, l \in 1..Len(submitted) :
           k < l /\ ~submitted[k].ok /\ submitted[l].ok

\* ------------------------------------------------------------------------
\* Texts as character sequences
\* ------------------------------------------------------------------------
UpperLetters == <<"A", "B", "C", "D", "E", "F", "G", "H", "I", "J", "K", "L", "M",
                  "N", "O", "P", "Q", "R", "S", "T", "U", "V", "W", "X", "Y", "Z">>

LowerLetters == <<"a", "b", "c", "d", "e", "f", "g", "h", "i", "j", "k", "l", "m",
                  "n", "o", "p", "q", "r", "s", "t", "u", "v", "w", "x", "y", "z">>

Digits == {"0", "1", "2", "3", "4", "5", "6", "7", "8", "9"}

\* [a-zA-Z0-9]
Alnum == Digits \cup Range(UpperLetters) \cup Range(LowerLetters)

IsAlnum(c) == c \in Alnum

\* \w of Python's re on the modelled (ASCII) alphabet: [a-zA-Z0-9_]
IsWordChar(c) == IsAlnum(c) \/ c = "_"

lower_char(c) ==
    IF c \in Range(UpperLetters)
    THEN LowerLetters[CHOOSE k \in 1..Len(UpperLetters) : UpperLetters[k] = c]
    ELSE c

\* str.lower()
lower(text) == [k \in 1..Len(text) |-> lower_char(text[k])]

\* needle in text (substring test)
Contains(text, needle) ==
    \E p \in 1..(Len(text) - Len(needle) + 1) :
        SubSeq(text, p, p + Len(needle) - 1) = needle

\* Length of the run of characters of set S that starts at position p.
RECURSIVE RunLen(_, _, _)
RunLen(text, p, S) ==
    IF p > Len(text) \/ text[p] \notin S THEN 0
    ELSE 1 + RunLen(text, p + 1, S)

\* sep.join(parts)
RECURSIVE join(_, _)
join(sep, parts) ==
    IF parts = <<>> THEN <<>>
    ELSE IF Len(parts) = 1 THEN parts[1]
    ELSE parts[1] \o sep \o join(sep, Tail(parts))

\* The passages joined by a single newline.
assemble_single_newline(passages) == join(<<"\n">>, passages)

\* utilities.py:145 -- context = '\n\n'.join(all_results)
assemble(passages) == join(<<"\n", "\n">>, passages)

\* The dense results followed by the lexical results not among them.
combine_distinct(result_chroma, result_whoosh) ==
    result_chroma \o SelectSeq(result_whoosh, LAMBDA d : d \notin Range(result_chroma))

\* utilities.py:137 -- result = result_chroma + result_whoosh
combine(result_chroma, result_whoosh) == result_chroma \o result_whoosh

\* ------------------------------------------------------------------------
\* Scoring (utilities.py:75-86)
\* ------------------------------------------------------------------------
\* Length of the match of  \$\d+(?:\.\d+)?[MBK]?  at position p, 0 if none.
money_match(text, p) ==
    IF p > Len(text) \/ text[p] # "$" THEN 0
    ELSE LET d1 == RunLen(text, p + 1, Digits) IN
         IF d1 = 0 THEN 0
         ELSE LET q  == p + 1 + d1
                  d2 == IF q <= Len(text) /\ text[q] = "."
                        THEN RunLen(text, q + 1, Digits) ELSE 0
                  r  == IF d2 > 0 THEN q + 1 + d2 ELSE q
                  e  == IF r <= Len(text) /\ text[r] \in {"M", "B", "K"}
                        THEN r + 1 ELSE r
              IN e - p

\* Length of the match of  \d+%+  at position p, 0 if none.
percent_match(text, p) ==
    LET d == RunLen(text, p, Digits)
        m == RunLen(text, p + d, {"%"})
    IN IF d > 0 /\ m > 0 THEN d + m ELSE 0

\* Length of the match of  \d+  at position p, 0 if none.
number_match(text, p) == RunLen(text, p, Digits)

\* len(re.findall(pattern, text)): scan left to right, matches do not overlap.
RECURSIVE count_money(_, _)
count_money(text, p) ==
    IF p > Len(text) THEN 0
    ELSE LET m == money_match(text, p) IN
         IF m > 0 THEN 1 + count_money(text, p + m) ELSE count_money(text, p + 1)

RECURSIVE count_percent(_, _)
count_percent(text, p) ==
    IF p > Len(text) THEN 0
    ELSE LET m == percent_match(text, p) IN
         IF m > 0 THEN 1 + count_percent(text, p + m) ELSE count_percent(text, p + 1)

\* The digit runs that are not part of a currency amount or a percentage.
RECURSIVE count_number_elsewhere(_, _)
count_number_elsewhere(text, p) ==
    IF p > Len(text) THEN 0
    ELSE LET skip == IF money_match(text, p) > 0 THEN money_match(text, p)
                     ELSE percent_match(text, p)
             m    == number_match(text, p) IN
         IF skip > 0 THEN count_number_elsewhere(text, p + skip)
         ELSE IF m > 0 THEN 1 + count_number_elsewhere(text, p + m)
         ELSE count_number_elsewhere(text, p + 1)

RECURSIVE count_number(_, _)
count_number(text, p) ==
    IF p > Len(text) THEN 0
    ELSE LET m == number_match(text, p) IN
         IF m > 0 THEN 1 + count_number(text, p + m) ELSE count_number(text, p + 1)

\* utilities.py:75-80
score_numeric_richness(text) ==
    5 * count_money(text, 1) + 3 * count_percent(text, 1) + 1 * count_number(text, 1)

\* utilities.py:82-86
score_table_relevance(text) ==
    LET table_score   == IF Contains(lower(text), <<"t", "a", "b", "l", "e">>)
                         THEN 3 ELSE 0
        numeric_score == score_numeric_richness(text)
    IN table_score + numeric_score

\* ------------------------------------------------------------------------
\* Ranking step (utilities.py:139-141)
\* ------------------------------------------------------------------------
\* Insert item x with key kx into a list of [item, key] pairs that is sorted
\* by descending key: x goes behind every pair whose key is >= kx.
RECURSIVE insert_desc(_, _)
insert_desc(pairs, x) ==
    IF pairs = <<>> THEN <<x>>
    ELSE IF Head(pairs).key >= x.key THEN <<Head(pairs)>> \o insert_desc(Tail(pairs), x)
    ELSE <<x>> \o pairs

RECURSIVE sort_pairs(_, _)
sort_pairs(pairs, done) ==
    IF pairs = <<>> THEN done
    ELSE sort_pairs(Tail(pairs), insert_desc(done, Head(pairs)))

\* sorted(items, key=..., reverse=True) with keys[k] the key of items[k]:
\* a stable sort, equal keys keep their order.
sorted_desc(items, keys) ==
    LET pairs == [k \in 1..Len(items) |-> [item |-> items[k], key |-> keys[k]]]
        out   == sort_pairs(pairs, <<>>)
    IN [k \in 1..Len(out) |-> out[k].item]

\* utilities.py:139 -- sorted(result, key=score_table_relevance, reverse=True)
sort_by_table_relevance(result) ==
    sorted_desc(result, [k \in 1..Len(result) |-> score_table_relevance(result[k])])

\* utilities.py:140 -- sorted(result, key=score_numeric_richness, reverse=True)
sort_by_numeric_richness(result) ==
    sorted_desc(result, [k \in 1..Len(result) |-> score_numeric_richness(result[k])])

\* The truncation is missing.
truncate_nothing(result, k) == result

\* result[:k]
truncate(result, k) == SubSeq(result, 1, Min(k, Len(result)))

\* utilities.py:139-141 -- the ranking step of one expanded query.
rank_step(result, k) ==
    truncate(sort_by_numeric_richness(sort_by_table_relevance(result)), k)

\* ------------------------------------------------------------------------
\* Ranking: bounds, inputs, actions
\* ------------------------------------------------------------------------
MaxPassages == 4
MaxTopK == 3

P_none  == <<"N", "o", " ", "n", "u", "m", "b", "e", "r", "s", " ", "h", "e", "r", "e", ".">>
P_money == <<"$", "1", "0", "0", " ", "c", "h", "a", "r", "g", "e">>
P_table == <<"T", "a", "b", "l", "e", " ", "2", ":", " ", "r", "a", "t", "e", "s", " ", "a", "t", " ", "1", "5", "%">>
P_TABLE == <<"T", "A", "B", "L", "E">>
P_nums  == <<"1", " ", "2", " ", "3">>

PassagePool == {P_none, P_money, P_table, P_TABLE, P_nums}

notRankVars == <<indexVars, expandVars, queryVars, chunkVars,
                 whooshVars,
                 scoreVars,
                 dbqVars,
                 bucketVars,
                 limiterVars>>

InitRank ==
    /\ rk_input \in SeqsUpTo(PassagePool, MaxPassages)
    /\ rk_top_k \in 0..MaxTopK
    /\ rk_output = <<>>
    /\ rk_context = <<>>
    /\ rpc = "ready"
    /\ IndexIdle /\ ExpandIdle /\ QueryIdle /\ ChunkIdle /\ WhooshIdle /\ ScoreIdle /\ DBQIdle /\ BucketIdle /\ LimiterIdle

\* utilities.py:139-141 applied to one retrieval result list.
RankStep ==
    /\ rpc = "ready"
    /\ rk_output' = rank_step(rk_input, rk_top_k)
    /\ rpc' = "done"
    /\ UNCHANGED <<rk_input, rk_top_k, rk_context>>
    /\ UNCHANGED notRankVars

\* utilities.py:145 applied to the ranked list of a question with a single
\* expanded query.
RankAssemble ==
    /\ rpc = "done"
    /\ rk_context' = assemble(rk_output)
    /\ rpc' = "assembled"
    /\ UNCHANGED <<rk_input, rk_top_k, rk_output>>
    /\ UNCHANGED notRankVars

NextRank ==
    \/ RankStep
    \/ RankAssemble

SpecRank == InitRank /\ [][NextRank]_vars

\* ------------------------------------------------------------------------
\* Ranking: properties
\* ------------------------------------------------------------------------
\* Position of the only occurrence of x in s.
PosOf(s, x) == CHOOSE k \in 1..Len(s) : s[k] = x

OccursOnce(s, x) == Cardinality({k \in 1..Len(s) : s[k] = x}) = 1

\* C4 -- The list produced by the ranking step is ordered by descending
\* combined score (numeric richness + table bonus): for a before b in the
\* output, combined(a) >= combined(b).
C4_DescendingCombinedScore ==
    (rpc = "done") =>
        \A a, b \in 1..Len(rk_output) :
            a < b => score_table_relevance(rk_output[a])
                       >= score_table_relevance(rk_output[b])

\* C5 -- Ranking "No numbers here.", "$100 charge", "Table 2: rates at 15%"
\* (in that order) with top_k = 2 returns ["Table 2: rates at 15%",
\* "$100 charge"], the scores of the three passages being 0, 5 and 6.
C5_EndToEndScenario ==
    (rpc = "done" /\ rk_input = <<P_none, P_money, P_table>> /\ rk_top_k = 2) =>
        /\ rk_output = <<P_table, P_money>>
        /\ score_table_relevance(P_none) = 0
        /\ score_table_relevance(P_money) = 5
        /\ score_table_relevance(P_table) = 6

\* C6 -- Two passages with equal combined score keep their original
\* relative order in the ranked list, whatever their numeric-richness and
\* table-bonus components are.
C6_StableOnCombinedScore ==
    (rpc = "done") =>
        \A x, y \in Range(rk_output) :
            ( /\ x # y
              /\ OccursOnce(rk_input, x) /\ OccursOnce(rk_input, y)
              /\ score_table_relevance(x) = score_table_relevance(y)
              /\ PosOf(rk_input, x) < PosOf(rk_input, y) )
            => PosOf(rk_output, x) < PosOf(rk_output, y)

\* ------------------------------------------------------------------------
\* Query expansion (utilities.py:88-104)
\* ------------------------------------------------------------------------
\* Length of the match of  \b[a-zA-Z0-9]+\b  at position p, 0 if none: a
\* word boundary before p, the longest alphanumeric run, a word boundary
\* behind it (a shorter run would end between two word characters).
keyword_match(text, p) ==
    LET d == RunLen(text, p, Alnum) IN
    IF /\ d > 0
       /\ (p = 1 \/ ~IsWordChar(text[p - 1]))
       /\ (p + d > Len(text) \/ ~IsWordChar(text[p + d]))
    THEN d ELSE 0

\* re.findall(r'\b[a-zA-Z0-9]+\b', text) from position p on.
RECURSIVE findall_keywords(_, _)
findall_keywords(text, p) ==
    IF p > Len(text) THEN <<>>
    ELSE LET m == keyword_match(text, p) IN
         IF m > 0 THEN <<SubSeq(text, p, p + m - 1)>> \o findall_keywords(text, p + m)
         ELSE findall_keywords(text, p + 1)

\* utilities.py:90
stopwords ==
    { <<"t", "h", "e">>, <<"i", "s">>, <<"f", "o", "r">>, <<"a", "n", "d">>, <<"a", "s">>, <<"o", "f">>, <<"t", "o">>, <<"i", "n">>, <<"o", "n">>, <<"b", "y">>, <<"w", "i", "t", "h">>,
      <<"a">>, <<"a", "n">>, <<"w", "h", "a", "t">> }

\* utilities.py:91 -- [kw for kw in keywords if kw not in stopwords]
RECURSIVE drop_stopwords(_)
drop_stopwords(kws) ==
    IF kws = <<>> THEN <<>>
    ELSE IF Head(kws) \in stopwords THEN drop_stopwords(Tail(kws))
    ELSE <<Head(kws)>> \o drop_stopwords(Tail(kws))

\* utilities.py:89-91
keywords_of(user_q) == drop_stopwords(findall_keywords(lower(user_q), 1))

\* Off by one: range(1, 3), the trigrams are missing.
ngrams_of_upto2(kws) ==
    UNION { { join(<<" ">>, SubSeq(kws, k + 1, k + n)) : k \in 0..(Len(kws) - n) }
            : n \in 1..2 }

\* utilities.py:92-94 -- for n in range(1, 4): the " "-joined keywords[i:i+n]
\* for i in range(len(keywords) - n + 1).
ngrams_of(kws) ==
    UNION { { join(<<" ">>, SubSeq(kws, k + 1, k + n)) : k \in 0..(Len(kws) - n) }
            : n \in 1..3 }

\* utilities.py:96 -- list(ngrams). The iteration order of a Python set of
\* strings is not fixed by the program (it varies with the hash seed of the
\* process): every enumeration of the set is a possible list.
RECURSIVE list_of_set(_)
list_of_set(S) ==
    IF S = {} THEN { <<>> }
    ELSE UNION { { <<x>> \o rest : rest \in list_of_set(S \ {x}) } : x \in S }

\* The exclusion terms joined in reverse order.
RECURSIVE exclude_str_reversed(_)
exclude_str_reversed(kws) ==
    IF kws = <<>> THEN <<>>
    ELSE IF Len(kws) = 1 THEN <<"N", "O", "T", " ">> \o kws[1]
    ELSE exclude_str_reversed(Tail(kws)) \o <<" ", "N", "O", "T", " ">> \o kws[1]

\* utilities.py:102 -- " ".join([f'NOT {kw}' for kw in exclude_keywords])
exclude_str(kws) ==
    join(<<" ">>, [k \in 1..Len(kws) |-> <<"N", "O", "T", " ">> \o kws[k]])

\* utilities.py:89-95 -- the set ngrams once the question has been added.
ngrams_with_question(user_q) == ngrams_of(keywords_of(user_q)) \cup {user_q}

\* utilities.py:97-103 -- the suffixes put behind every query of the list.
with_suffixes(q0, excl, must) ==
    LET q1 == IF must # <<>>
              THEN [k \in 1..Len(q0) |-> q0[k] \o <<" ">> \o must]
              ELSE q0
    IN IF excl # <<>>
       THEN [k \in 1..Len(q1) |-> q1[k] \o <<" ">> \o exclude_str(excl)]
       ELSE q1

\* utilities.py:88-104 -- the lists a call can return, one for each
\* iteration order of the set (line 96). None and "" (must_include) and
\* None and [] (exclude_keywords) are all falsy and take the same branches:
\* both are modelled by <<>>.
extract_retrieval_queries(user_q, excl, must) ==
    { with_suffixes(q0, excl, must) : q0 \in list_of_set(ngrams_with_question(user_q)) }

\* ------------------------------------------------------------------------
\* Query expansion: bounds, inputs, actions
\* ------------------------------------------------------------------------
MaxQLen == 5

\* "A" lowers to the stop word "a", "b" is a keyword, " " separates words,
\* "_" is a word character that is not alphanumeric.
QAlphabet == {"A", "b", " ", "_"}

\* A question of the same kind with fewer keywords.
Q_short == <<"F", "i", "x", "e", "d", " ", "C", "h", "a", "r", "g", "e", "s", " ", "f", "o", "r", " ", "H", "T", "?">>

Q_example == <<"W", "h", "a", "t", " ", "a", "r", "e", " ", "F", "i", "x", "e", "d", " ", "C", "h", "a", "r", "g", "e", "s", " ", "f", "o", "r", " ", "H", "T", "?">>

\* utilities.py:107-108
program_exclude_keywords == << <<"p", "r", "o", "p", "o", "s", "e", "d">>, <<"e", "s", "t", "i", "m", "a", "t", "e", "d">>, <<"s", "u", "b", "m", "i", "t", "t", "e", "d">> >>
program_must_include == <<"a", "p", "p", "r", "o", "v", "e", "d">>

\* (must_include, exclude_keywords) of a call.
SuffixConfigs ==
    { << <<>>, <<>> >>,
      << <<"o", "k">>, <<>> >>,
      << <<>>, << <<"x">> >> >>,
      << <<"o", "k">>, << <<"x">>, <<"y">> >> >>,
      << program_must_include, program_exclude_keywords >> }

notExpandVars == <<indexVars, rankVars, queryVars, chunkVars,
                 whooshVars,
                 scoreVars,
                 dbqVars,
                 bucketVars,
                 limiterVars>>

InitExpand ==
    /\ user_question \in SeqsUpTo(QAlphabet, MaxQLen) \cup {Q_short}
    /\ \E cfg \in SuffixConfigs : must_include = cfg[1] /\ exclude_keywords = cfg[2]
    /\ queries = <<>>
    /\ epc = "ready"
    /\ IndexIdle /\ RankIdle /\ QueryIdle /\ ChunkIdle /\ WhooshIdle /\ ScoreIdle /\ DBQIdle /\ BucketIdle /\ LimiterIdle

\* One call of extract_retrieval_queries.
Expand ==
    /\ epc = "ready"
    /\ queries' \in extract_retrieval_queries(user_question, exclude_keywords,
                                              must_include)
    /\ epc' = "done"
    /\ UNCHANGED <<user_question, exclude_keywords, must_include>>
    /\ UNCHANGED notExpandVars

NextExpand == Expand

SpecExpand == InitExpand /\ [][NextExpand]_vars

\* ------------------------------------------------------------------------
\* Query expansion: properties
\* ------------------------------------------------------------------------
\* The alphanumeric tokens of a text, stated without a scan: the spans of
\* alphanumeric characters with no word character right before or behind.
TokenSpans(text) ==
    { sp \in (1..Len(text)) \X (1..Len(text)) :
        /\ sp[1] <= sp[2]
        /\ \A k \in sp[1]..sp[2] : IsAlnum(text[k])
        /\ (sp[1] = 1 \/ ~IsWordChar(text[sp[1] - 1]))
        /\ (sp[2] = Len(text) \/ ~IsWordChar(text[sp[2] + 1])) }

RECURSIVE SpansInOrder(_)
SpansInOrder(spans) ==
    IF spans = {} THEN <<>>
    ELSE LET first == CHOOSE sp \in spans : \A o \in spans : sp[1] <= o[1]
         IN <<first>> \o SpansInOrder(spans \ {first})

\* Lowercase tokens of the question, in order, stop words removed.
FilteredTokens(text) ==
    LET spans == SpansInOrder(TokenSpans(text))
        toks  == [k \in 1..Len(spans) |-> lower(SubSeq(text, spans[k][1], spans[k][2]))]
    IN SelectSeq(toks, LAMBDA t : t \notin stopwords)

\* Every contiguous 1-, 2- and 3-gram of toks, space-joined.
ContiguousGrams(toks) ==
    UNION { { join(<<" ">>, SubSeq(toks, a, b)) : b \in a..Min(a + 2, Len(toks)) }
            : a \in 1..Len(toks) }

\* C8 -- With no must_include and no exclude terms, extract_retrieval_queries
\* returns a duplicate-free list whose element set is exactly the original
\* question plus every contiguous 1-, 2- and 3-gram of the question's
\* lowercase alphanumeric tokens after stop-word removal; for "What are Fixed
\* Charges for HT?" it includes "fixed", "charges", "ht", "fixed charges" and
\* the question itself.
C8_ExpansionCoverage ==
    (epc = "done" /\ must_include = <<>> /\ exclude_keywords = <<>>) =>
        /\ \A k, l \in 1..Len(queries) : queries[k] = queries[l] => k = l
        /\ Range(queries) =
               {user_question} \cup ContiguousGrams(FilteredTokens(user_question))
        /\ (user_question = Q_short) =>
               { <<"f", "i", "x", "e", "d">>, <<"c", "h", "a", "r", "g", "e", "s">>, <<"h", "t">>, <<"f", "i", "x", "e", "d", " ", "c", "h", "a", "r", "g", "e", "s">>, Q_short }
                   \subseteq Range(queries)
        /\ { <<"f", "i", "x", "e", "d">>, <<"c", "h", "a", "r", "g", "e", "s">>, <<"h", "t">>, <<"f", "i", "x", "e", "d", " ", "c", "h", "a", "r", "g", "e", "s">>, Q_example }
               \subseteq ngrams_with_question(Q_example)

\* C8 witness: a question about fixed charges has been expanded without
\* suffixes into its seven variants, the question itself not in first place.
C8_Witness ==
    /\ epc = "done" /\ must_include = <<>> /\ exclude_keywords = <<>>
    /\ user_question = Q_short
    /\ Len(queries) = 7
    /\ queries[1] # Q_short

\* " m NOT t1 NOT t2 ... NOT tn", built term by term.
RECURSIVE NotClauses(_)
NotClauses(terms) ==
    IF terms = <<>> THEN <<>>
    ELSE <<" ", "N", "O", "T", " ">> \o Head(terms) \o NotClauses(Tail(terms))

SuffixOf(m, terms) == <<" ">> \o m \o NotClauses(terms)

\* C9 -- With must_include m and exclude terms t1..tn (n >= 1), every
\* returned variant, the original-question variant included, has the form
\* "<base> m NOT t1 ... NOT tn" (terms in the given order), the bases being
\* the variants returned without suffix, and there are as many variants as
\* without suffix.
C9_SuffixOnEveryVariant ==
    (epc = "done" /\ must_include # <<>> /\ exclude_keywords # <<>>) =>
        LET plain == ngrams_with_question(user_question)
            sfx   == SuffixOf(must_include, exclude_keywords)
        IN /\ Range(queries) = { base \o sfx : base \in plain }
           /\ (user_question \o sfx) \in Range(queries)
           /\ Len(queries) = Cardinality(plain)

\* C9 witness: a question with several variants has been expanded with a
\* must_include term and two exclusion terms.
C9_Witness ==
    /\ epc = "done" /\ must_include # <<>> /\ Len(exclude_keywords) >= 2
    /\ Len(queries) >= 4

\* ------------------------------------------------------------------------
\* Answering one question (utilities.py:125-148, main.py:53-58)
\* ------------------------------------------------------------------------
\* utilities.py:109
top_k == 5
\* langchain/db.py:66 -- default top_k of DB.query as query_discom_orders calls it
dense_top_k == 10
\* langchain/db.py:86 -- default limit of DB.query_whoosh
whoosh_limit == 10
\* db.py:65 -- default top_k of DB.query as main.py calls it
main_top_k == 5

\* Sequences of m distinct stored documents of docs.
Picks(docs, m) ==
    { [k \in 1..m |-> docs[f[k]]] :
        f \in { g \in [1..m -> 1..Len(docs)] :
                  \A a, b \in 1..m : g[a] = g[b] => a = b } }

\* langchain/db.py:74-79 / db.py:73-78 -- what collection.query(...)
\* ["documents"][0] can be for a non-empty collection: the n_results =
\* min(top_k, count) nearest documents, in the backend's order.
dense_results(docs, k) == Picks(docs, Min(k, Len(docs)))

\* langchain/db.py:110-125 -- what query_whoosh can return: the contents of
\* the hits, at most limit of them, in the backend's (BM25F) order.
whoosh_results(docs, limit) ==
    UNION { Picks(docs, m) : m \in 0..Min(limit, Len(docs)) }

\* Documents held by the backends in the modelled runs.
DocPool == <<P_TABLE, P_nums, P_money>>

\* The document of a chunk with empty content (an empty page passed
\* through by the Chunker and indexed under the hash of "").
P_empty == <<>>

DenseCorpora == { <<>>, <<P_nums>>, <<P_empty>>, DocPool }

WhooshCorpora == { <<>>, <<P_TABLE, P_money>>, DocPool }

Questions == { <<"b">>, <<"b", "?">>, <<"b", " ", "c">> }

notQueryVars == <<indexVars, expandVars, rankVars, chunkVars,
                 whooshVars,
                 scoreVars,
                 dbqVars,
                 bucketVars,
                 limiterVars>>

InitQuery ==
    /\ dense_docs \in DenseCorpora
    /\ whoosh_docs \in WhooshCorpora
    /\ caller \in {"query_discom_orders", "main"}
    /\ question \in Questions
    /\ ques = <<>> /\ qi = 0 /\ all_results = <<>> /\ contributions = <<>>
    /\ dense_calls = 0 /\ context = <<>> /\ raised = "no" /\ asked = FALSE
    /\ qpc = "start"
    /\ IndexIdle /\ ExpandIdle /\ RankIdle /\ ChunkIdle /\ WhooshIdle /\ ScoreIdle /\ DBQIdle /\ BucketIdle /\ LimiterIdle

\* utilities.py:126-128 -- the question is expanded, all_results = [].
QExpand ==
    /\ qpc = "start" /\ caller = "query_discom_orders"
    /\ ques' \in extract_retrieval_queries(question, program_exclude_keywords,
                                           program_must_include)
    /\ qi' = 1
    /\ all_results' = <<>>
    /\ qpc' = "loop"
    /\ UNCHANGED <<dense_docs, whoosh_docs, caller, question, contributions,
                   dense_calls, context, raised, asked>>
    /\ UNCHANGED notQueryVars

\* utilities.py:130-143 -- one expanded query for which both backends
\* return a list: concatenate, sort twice, truncate, extend all_results.
QueryBoth ==
    /\ qpc = "loop" /\ qi <= Len(ques)
    /\ Len(dense_docs) > 0
    /\ \E result_chroma \in dense_results(dense_docs, dense_top_k) :
       \E result_whoosh \in whoosh_results(whoosh_docs, whoosh_limit) :
           LET result == rank_step(combine(result_chroma, result_whoosh), top_k) IN
           /\ all_results' = all_results \o result
           /\ contributions' = Append(contributions,
                                      [result_chroma |-> Len(result_chroma),
                                       result_whoosh |-> Len(result_whoosh),
                                       result |-> Len(result)])
    /\ dense_calls' = dense_calls + 1
    /\ qi' = qi + 1
    /\ UNCHANGED <<dense_docs, whoosh_docs, caller, question, ques, context,
                   raised, asked, qpc>>
    /\ UNCHANGED notQueryVars

\* langchain/db.py:69-72, utilities.py:134-137 -- the collection is empty:
\* DB.query returns None without querying the backend, query_whoosh returns
\* a list, and  result_chroma + result_whoosh  raises TypeError.
QueryDenseEmpty ==
    /\ qpc = "loop" /\ qi <= Len(ques)
    /\ Len(dense_docs) = 0
    /\ raised' = "TypeError"
    /\ qpc' = "raised"
    /\ UNCHANGED <<dense_docs, whoosh_docs, caller, question, ques, qi,
                   all_results, contributions, dense_calls, context, asked>>
    /\ UNCHANGED notQueryVars

\* langchain/db.py:68-83, utilities.py:134-137 -- collection.count raises
\* (collection.query is then not reached) or collection.query raises:
\* DB.query catches it and returns None, query_whoosh returns a list, and
\* result_chroma + result_whoosh  raises TypeError.
QueryDenseError ==
    /\ qpc = "loop" /\ qi <= Len(ques)
    /\ Len(dense_docs) > 0
    /\ \E backend_called \in BOOLEAN :
           dense_calls' = IF backend_called THEN dense_calls + 1 ELSE dense_calls
    /\ raised' = "TypeError"
    /\ qpc' = "raised"
    /\ UNCHANGED <<dense_docs, whoosh_docs, caller, question, ques, qi,
                   all_results, contributions, context, asked>>
    /\ UNCHANGED notQueryVars

\* langchain/db.py:98-120, utilities.py:135 -- query_whoosh raises (query
\* parse error, index unavailable): nothing catches it, it leaves
\* query_discom_orders. DB.query has run before it, reaching
\* collection.query unless the collection is empty or collection.count
\* raised.
QueryWhooshError ==
    /\ qpc = "loop" /\ qi <= Len(ques)
    /\ \E backend_called \in BOOLEAN :
           /\ (Len(dense_docs) = 0) => ~backend_called
           /\ dense_calls' = IF backend_called THEN dense_calls + 1 ELSE dense_calls
    /\ raised' = "WhooshError"
    /\ qpc' = "raised"
    /\ UNCHANGED <<dense_docs, whoosh_docs, caller, question, ques, qi,
                   all_results, contributions, context, asked>>
    /\ UNCHANGED notQueryVars

\* utilities.py:145-148 -- the loop is over: join the passages, ask the LLM.
QAssemble ==
    /\ qpc = "loop" /\ qi > Len(ques)
    /\ context' = assemble(all_results)
    /\ asked' = TRUE
    /\ qpc' = "done"
    /\ UNCHANGED <<dense_docs, whoosh_docs, caller, question, ques, qi,
                   all_results, contributions, dense_calls, raised>>
    /\ UNCHANGED notQueryVars

\* main.py:53-58 with db.py:65-78 -- db.query(["subsidies"]) returns the
\* documents, which are joined and handed to the LLM.
MainQuery ==
    /\ qpc = "start" /\ caller = "main"
    /\ Len(dense_docs) > 0
    /\ \E result \in dense_results(dense_docs, main_top_k) :
           /\ all_results' = result
           /\ context' = join(<<"\n", "\n">>, result)
    /\ dense_calls' = dense_calls + 1
    /\ asked' = TRUE
    /\ qpc' = "done"
    /\ UNCHANGED <<dense_docs, whoosh_docs, caller, question, ques, qi,
                   contributions, raised>>
    /\ UNCHANGED notQueryVars

\* main.py:54-55 with db.py:67-82 -- db.query returns None (empty
\* collection, or a backend error caught inside);  '\n\n'.join(None)
\* raises TypeError.
MainQueryNone ==
    /\ qpc = "start" /\ caller = "main"
    /\ \E backend_called \in BOOLEAN :
           /\ (Len(dense_docs) = 0) => ~backend_called
           /\ dense_calls' = IF backend_called THEN dense_calls + 1 ELSE dense_calls
    /\ raised' = "TypeError"
    /\ qpc' = "raised"
    /\ UNCHANGED <<dense_docs, whoosh_docs, caller, question, ques, qi,
                   all_results, contributions, context, asked>>
    /\ UNCHANGED notQueryVars

NextQuery ==
    \/ QExpand
    \/ QueryBoth
    \/ QueryDenseEmpty
    \/ QueryDenseError
    \/ QueryWhooshError
    \/ QAssemble
    \/ MainQuery
    \/ MainQueryNone

SpecQuery == InitQuery /\ [][NextQuery]_vars

C10_EmptyCollectionDoesNotRaise ==
    (Len(dense_docs) = 0) => (raised # "TypeError" /\ dense_calls = 0)

\* C11 -- When the dense or the lexical backend raises for one expanded
\* query, query_discom_orders does not raise: the failing backend
\* contributes nothing for that query and the loop goes on. (With a
\* non-empty collection the only way the dense side fails is a backend
\* error.)
C11_BackendErrorIsIsolated ==
    (caller = "query_discom_orders") =>
        /\ raised # "WhooshError"
        /\ (Len(dense_docs) > 0) => (raised = "no")

RECURSIVE SumResult(_)
SumResult(cs) == IF cs = <<>> THEN 0 ELSE Head(cs).result + SumResult(Tail(cs))

RECURSIVE OffsetOf(_, _)
OffsetOf(passages, k) ==
    IF k = 1 THEN 0
    ELSE OffsetOf(passages, k - 1) + Len(passages[k - 1]) + 2

\* ctx consists of the passages in order, with exactly "\n\n" between two
\* consecutive passages and nothing else.
JoinedByBlankLine(ctx, passages) ==
    /\ Len(ctx) = IF passages = <<>> THEN 0
                  ELSE OffsetOf(passages, Len(passages))
                       + Len(passages[Len(passages)])
    /\ \A k \in 1..Len(passages) :
           LET off == OffsetOf(passages, k)
               n   == Len(passages[k]) IN
           /\ SubSeq(ctx, off + 1, off + n) = passages[k]
           /\ (k < Len(passages)) =>
                  (ctx[off + n + 1] = "\n" /\ ctx[off + n + 2] = "\n")

\* C20 -- The assembled context is the ranked passages in ranked order
\* joined by exactly "\n\n", no passage added, dropped or reordered; for an
\* empty passage list it is the empty string.
C20_ContextIsJoinedPassages ==
    /\ (rpc = "assembled") => JoinedByBlankLine(rk_context, rk_output)
    /\ (caller = "query_discom_orders" /\ qpc = "done")
           => JoinedByBlankLine(context, all_results)

\* C20 witness: a ranked list of several passages has been assembled.
C20_Witness ==
    /\ rpc = "assembled"
    /\ Len(rk_output) >= 2
    /\ Len(rk_context) > 0

\* C20 witness of the empty case: nothing was ranked, the context is empty.
C20_WitnessEmpty ==
    /\ rpc = "assembled"
    /\ rk_output = <<>>
    /\ rk_context = <<>>

\* ------------------------------------------------------------------------
\* Chunking: the text splitter configured in Chunker.__init__
\* (RecursiveCharacterTextSplitter(chunk_size, chunk_overlap,
\*  separators=["\n\n", "\n", ".", " ", ""], keep_separator=False); the
\*  operators below follow the library's split_text: pick the first
\*  separator present, split, merge the small pieces up to chunk_size with
\*  overlap, recurse into the pieces that are still too long.)
\* ------------------------------------------------------------------------
separators == << <<"\n", "\n">>, <<"\n">>, <<".">>, <<" ">>, <<>> >>

Whitespace == {" ", "\n", "\t", "\r"}

RECURSIVE lstrip(_)
lstrip(text) ==
    IF text # <<>> /\ Head(text) \in Whitespace THEN lstrip(Tail(text)) ELSE text

RECURSIVE rstrip(_)
rstrip(text) ==
    IF text # <<>> /\ text[Len(text)] \in Whitespace
    THEN rstrip(SubSeq(text, 1, Len(text) - 1))
    ELSE text

\* str.strip()
strip(text) == rstrip(lstrip(text))

\* re.split(re.escape(sep), text) for a non-empty literal sep, scanning from
\* position p with the piece cur under construction.
RECURSIVE re_split_from(_, _, _, _)
re_split_from(text, sep, p, cur) ==
    IF p > Len(text) THEN <<cur>>
    ELSE IF p + Len(sep) - 1 <= Len(text)
            /\ SubSeq(text, p, p + Len(sep) - 1) = sep
         THEN <<cur>> \o re_split_from(text, sep, p + Len(sep), <<>>)
         ELSE re_split_from(text, sep, p + 1, Append(cur, text[p]))

\* The pieces between the occurrences of sep (the characters of the text
\* for the empty separator), empty pieces dropped.
split_text_with_regex(text, sep) ==
    IF sep = <<>> THEN [k \in 1..Len(text) |-> <<text[k]>>]
    ELSE SelectSeq(re_split_from(text, sep, 1, <<>>), LAMBDA piece : piece # <<>>)

\* separator.join(docs).strip(); the empty text stands for None.
join_docs(docs, sep) == strip(join(sep, docs))

\* The  while  loop of the merge: drop pieces from the front of current_doc
\* until at most overlap characters are kept and the next piece fits.
RECURSIVE pop_front(_, _, _, _, _, _)
pop_front(current_doc, total, len, sep_len, size, ovl) ==
    IF total > ovl
       \/ (total + len + (IF Len(current_doc) > 0 THEN sep_len ELSE 0) > size
           /\ total > 0)
    THEN pop_front(Tail(current_doc),
                   total - (Len(Head(current_doc))
                            + (IF Len(current_doc) > 1 THEN sep_len ELSE 0)),
                   len, sep_len, size, ovl)
    ELSE [current_doc |-> current_doc, total |-> total]

\* The  for  loop of the merge from piece k on.
RECURSIVE merge_from(_, _, _, _, _, _, _, _)
merge_from(splits, k, docs, current_doc, total, sep, size, ovl) ==
    IF k > Len(splits)
    THEN LET doc == join_docs(current_doc, sep) IN
         IF doc # <<>> THEN Append(docs, doc) ELSE docs
    ELSE LET d       == splits[k]
             len     == Len(d)
             sep_len == Len(sep)
             flush   == /\ total + len
                              + (IF Len(current_doc) > 0 THEN sep_len ELSE 0) > size
                        /\ Len(current_doc) > 0
             doc     == join_docs(current_doc, sep)
             docs1   == IF flush /\ doc # <<>> THEN Append(docs, doc) ELSE docs
             kept    == IF flush
                        THEN pop_front(current_doc, total, len, sep_len, size, ovl)
                        ELSE [current_doc |-> current_doc, total |-> total]
             cur1    == Append(kept.current_doc, d)
             total1  == kept.total + len + (IF Len(cur1) > 1 THEN sep_len ELSE 0)
         IN merge_from(splits, k + 1, docs1, cur1, total1, sep, size, ovl)

\* Small pieces combined into chunks of at most size characters.
merge_splits(splits, sep, size, ovl) ==
    merge_from(splits, 1, <<>>, <<>>, 0, sep, size, ovl)

\* The separator used for text: the first of seps that is empty or occurs
\* in text, and the separators left for the pieces that stay too long.
pick_separator(text, seps) ==
    LET hits == {k \in 1..Len(seps) : seps[k] = <<>> \/ Contains(text, seps[k])} IN
    IF hits = {} THEN [separator |-> seps[Len(seps)], new_separators |-> <<>>]
    ELSE LET k == CHOOSE h \in hits : \A g \in hits : h <= g IN
         [separator |-> seps[k],
          new_separators |-> IF seps[k] = <<>> THEN <<>>
                             ELSE SubSeq(seps, k + 1, Len(seps))]

RECURSIVE recursive_split(_, _, _, _)
RECURSIVE split_loop(_, _, _, _, _, _, _, _)
\* The loop over the pieces of one split, from piece k on: pieces shorter
\* than size are collected and merged, the others are split again with the
\* remaining separators.
split_loop(splits, k, final_chunks, good_splits, separator, new_separators, size, ovl) ==
    LET merged == IF good_splits # <<>>
                  THEN final_chunks \o merge_splits(good_splits, separator, size, ovl)
                  ELSE final_chunks
    IN
    IF k > Len(splits) THEN merged
    ELSE IF Len(splits[k]) < size
         THEN split_loop(splits, k + 1, final_chunks, Append(good_splits, splits[k]),
                         separator, new_separators, size, ovl)
         ELSE split_loop(splits, k + 1,
                         IF new_separators = <<>> THEN Append(merged, splits[k])
                         ELSE merged \o recursive_split(splits[k], new_separators, size, ovl),
                         <<>>, separator, new_separators, size, ovl)

recursive_split(text, seps, size, ovl) ==
    LET pick == pick_separator(text, seps) IN
    split_loop(split_text_with_regex(text, pick.separator), 1, <<>>, <<>>,
               pick.separator, pick.new_separators, size, ovl)

\* The text returned whole.
split_text_whole(text, size, ovl) == <<text>>

\* chunker.py:25 -- self.text_splitter.split_text(page_content)
split_text(text, size, ovl) == recursive_split(text, separators, size, ovl)

\* ------------------------------------------------------------------------
\* Chunking: Chunker.chunk (chunker.py:17-42)
\* ------------------------------------------------------------------------
\* Split with the threshold at chunk_size instead of 1.5 * chunk_size.
needs_split_above_size(page_content, size) == Len(page_content) > size

\* chunker.py:24 -- len(page_content) > self.chunk_size * 1.5
needs_split(page_content, size) == 2 * Len(page_content) > 3 * size

\* chunker.py:26-31 -- the dict appended for one piece of a split page.
make_chunk(page_num, chunk, page_source) ==
    [page_number |-> page_num, content |-> chunk, source |-> page_source]

\* chunker.py:20-22 -- the three subscripts succeed and the content has a
\* length: page["content"] of a page without that key raises KeyError (as
\* len(None) raises TypeError for a content that is not text).
well_formed(page) == {"page_number", "content", "source"} \subseteq DOMAIN page

MaxPageLen == 5

MaxChunkCalls == 2

PageAlphabet == {"a", " ", ".", "\n"}

ChunkSizes == {2, 3}

Overlaps == {0, 1}

\* A page as langchain/parser.py:21 builds it.
text_page(n, text) == [page_number |-> n, content |-> text, source |-> "doc.pdf"]

\* A page without content.
bad_page(n) == [page_number |-> n, source |-> "doc.pdf"]

\* Pages of the documents of several pages: a short page, an empty page, a
\* page at the split threshold of chunk_size 3, long pages, a page without
\* content.
ManyPagePool(n) ==
    { text_page(n, <<"a", ".">>),
      text_page(n, <<>>),
      text_page(n, <<"a", " ", "a", "a">>),
      text_page(n, <<"a", "a", " ", "a", "\n", "a">>),
      bad_page(n) }

\* One-page documents over every text up to MaxPageLen, and documents of
\* two or three pages over the pool.
Documents ==
    { <<text_page(1, t)>> : t \in SeqsUpTo(PageAlphabet, MaxPageLen) }
    \cup { <<bad_page(1)>>, <<>> }
    \cup { <<p, q>> : p \in ManyPagePool(1), q \in ManyPagePool(2) }
    \cup { <<p, q, r>> : p \in ManyPagePool(1), q \in ManyPagePool(2),
                         r \in ManyPagePool(3) }

notChunkVars == <<indexVars, expandVars, rankVars, queryVars, whooshVars,
                 scoreVars,
                 dbqVars,
                 bucketVars,
                 limiterVars>>

\* chunker.py:4-15 -- a Chunker has been constructed.
InitChunk ==
    /\ document \in Documents
    /\ chunk_size \in ChunkSizes
    /\ overlap \in Overlaps
    /\ self_chunked_content = <<>> /\ origin = <<>>
    /\ page_index = 0
    /\ chunk_result = <<>> /\ chunk_failed = FALSE /\ chunk_calls = 0
    /\ first_result = <<>>
    /\ cpc = "new"
    /\ IndexIdle /\ ExpandIdle /\ RankIdle /\ QueryIdle /\ WhooshIdle /\ ScoreIdle /\ DBQIdle /\ BucketIdle /\ LimiterIdle

\* chunker.py:17-19 -- chunk() is called (again, on the same Chunker): the
\* loop over self.document starts; self.chunked_content is left as it is.
ChunkCall ==
    /\ cpc \in {"new", "returned"}
    /\ chunk_calls < MaxChunkCalls
    /\ chunk_calls' = chunk_calls + 1
    /\ page_index' = 1
    /\ chunk_failed' = FALSE
    /\ cpc' = "loop"
    /\ UNCHANGED <<document, chunk_size, overlap, self_chunked_content, origin,
                   chunk_result, first_result>>
    /\ UNCHANGED notChunkVars

\* chunker.py:20-31 -- a page above the threshold: one dict per piece of
\* split_text, with the page's number and source.
ChunkPageSplit ==
    /\ cpc = "loop" /\ page_index <= Len(document)
    /\ well_formed(document[page_index])
    /\ needs_split(document[page_index].content, chunk_size)
    /\ LET page        == document[page_index]
           page_chunks == split_text(page.content, chunk_size, overlap) IN
       /\ self_chunked_content' =
              self_chunked_content
              \o [k \in 1..Len(page_chunks) |->
                      make_chunk(page.page_number, page_chunks[k], page.source)]
       /\ origin' = origin \o [k \in 1..Len(page_chunks) |-> page_index]
    /\ page_index' = page_index + 1
    /\ UNCHANGED <<document, chunk_size, overlap, chunk_result, first_result,
                   chunk_failed, chunk_calls, cpc>>
    /\ UNCHANGED notChunkVars

\* chunker.py:20-24, 33-34 -- a page up to the threshold: the page itself
\* is appended.
ChunkPagePassthrough ==
    /\ cpc = "loop" /\ page_index <= Len(document)
    /\ well_formed(document[page_index])
    /\ ~needs_split(document[page_index].content, chunk_size)
    /\ self_chunked_content' = Append(self_chunked_content, document[page_index])
    /\ origin' = Append(origin, page_index)
    /\ page_index' = page_index + 1
    /\ UNCHANGED <<document, chunk_size, overlap, chunk_result, first_result,
                   chunk_failed, chunk_calls, cpc>>
    /\ UNCHANGED notChunkVars

\* chunker.py:18-22, 38-41 -- reading the page raises; the except branch
\* around the whole loop prints the error and returns [].
ChunkPageError ==
    /\ cpc = "loop" /\ page_index <= Len(document)
    /\ ~well_formed(document[page_index])
    /\ chunk_result' = <<>>
    /\ first_result' = IF chunk_calls = 1 THEN <<>> ELSE first_result
    /\ chunk_failed' = TRUE
    /\ cpc' = "returned"
    /\ UNCHANGED <<document, chunk_size, overlap, self_chunked_content, origin,
                   page_index, chunk_calls>>
    /\ UNCHANGED notChunkVars

\* chunker.py:36 -- the loop is over: return self.chunked_content.
ChunkReturn ==
    /\ cpc = "loop" /\ page_index > Len(document)
    /\ chunk_result' = self_chunked_content
    /\ first_result' = IF chunk_calls = 1 THEN self_chunked_content
                                          ELSE first_result
    /\ cpc' = "returned"
    /\ UNCHANGED <<document, chunk_size, overlap, self_chunked_content, origin,
                   page_index, chunk_failed, chunk_calls>>
    /\ UNCHANGED notChunkVars

NextChunk ==
    \/ ChunkCall
    \/ ChunkPageSplit
    \/ ChunkPagePassthrough
    \/ ChunkPageError
    \/ ChunkReturn

SpecChunk == InitChunk /\ [][NextChunk]_vars

\* ------------------------------------------------------------------------
\* Chunking: properties
\* ------------------------------------------------------------------------
\* The page has text of at most 1.5 * chunk_size characters.
ShortPage(page) == well_formed(page) /\ 2 * Len(page.content) <= 3 * chunk_size

\* The page has text of more than 1.5 * chunk_size characters.
LongPage(page) == well_formed(page) /\ 2 * Len(page.content) > 3 * chunk_size

\* Positions of the list whose entry was made from page j of the document.
MadeFrom(list, j) == {k \in 1..Len(list) : origin[k] = j}

\* C12 -- A malformed page is omitted and the chunks of every other page
\* are still returned: whenever chunk() has returned, every page that needs
\* no splitting is in the returned list (so the list is not empty when the
\* document has such a page).
C12_BadPageIsSkipped ==
    (cpc = "returned") =>
        \A j \in 1..Len(document) :
            ShortPage(document[j]) => document[j] \in Range(chunk_result)

\* C13 -- A page with len(content) <= 1.5 * chunk_size is emitted as
\* exactly one chunk, identical to the page: the loop step on such a page
\* appends the page itself, and nothing else, to self.chunked_content; and
\* the list returned by a first chunk() call that ran through the document
\* holds, for each such page, exactly one entry, equal to the page.
C13_PassthroughIsIdentity ==
    /\ [][ (cpc = "loop" /\ page_index <= Len(document)
            /\ ShortPage(document[page_index]))
           => /\ self_chunked_content'
                     = Append(self_chunked_content, document[page_index])
              /\ page_index' = page_index + 1 ]_vars
    /\ [] ( (cpc = "returned" /\ ~chunk_failed /\ chunk_calls = 1) =>
              \A j \in 1..Len(document) :
                  ShortPage(document[j]) =>
                      /\ Cardinality(MadeFrom(chunk_result, j)) = 1
                      /\ \A k \in MadeFrom(chunk_result, j) :
                             chunk_result[k] = document[j] )

\* C13 witness: chunk() has returned a list in which a non-empty page below
\* the threshold, but longer than chunk_size, stands unchanged.
C13_Witness ==
    /\ cpc = "returned" /\ ~chunk_failed /\ chunk_calls = 1
    /\ \E j \in 1..Len(document) :
           /\ ShortPage(document[j])
           /\ Len(document[j].content) > chunk_size
           /\ \E k \in MadeFrom(chunk_result, j) : chunk_result[k] = document[j]

\* C14 -- Every chunk emitted for a page with len(content) > 1.5 *
\* chunk_size has len(content) <= chunk_size and carries the page's
\* page_number and source; what chunk() returns is what it has emitted.
C14_SplitChunksWithinSize ==
    /\ \A k \in 1..Len(self_chunked_content) :
           LongPage(document[origin[k]]) =>
               /\ Len(self_chunked_content[k].content) <= chunk_size
               /\ self_chunked_content[k].page_number
                      = document[origin[k]].page_number
               /\ self_chunked_content[k].source = document[origin[k]].source
    /\ Len(chunk_result) <= Len(self_chunked_content)
    /\ \A k \in 1..Len(chunk_result) : chunk_result[k] = self_chunked_content[k]

\* C14 witness: chunk() has returned several chunks made from one long page.
C14_Witness ==
    /\ cpc = "returned" /\ ~chunk_failed
    /\ \E j \in 1..Len(document) :
           /\ LongPage(document[j])
           /\ Cardinality(MadeFrom(chunk_result, j)) >= 2

\* C15 -- Every chunk returned by chunk() has non-empty content; a page
\* whose content is the empty string is not emitted.
C15_ChunksAreNonEmpty ==
    \A k \in 1..Len(chunk_result) : Len(chunk_result[k].content) > 0

\* ------------------------------------------------------------------------
\* Lexical indexing: Indexer.index_whoosh (indexer.py:59-94)
\* ------------------------------------------------------------------------
MaxWhooshRuns == 2

\* indexer.py:19 -- chunk["content"].encode() and the other subscripts of
\* get_ready succeed; a chunk without the content key raises KeyError (a
\* content None raises AttributeError).
usable(chunk) == {"content", "page_number", "source"} \subseteq DOMAIN chunk

\* A chunk without content.
ChunkWithoutContent == [page_number |-> 1, source |-> "doc.pdf"]

WhooshChunkPool == ChunkPool \cup {ChunkWithoutContent}

\* indexer.py:80-85 -- the document handed to writer.add_document for
\* entry k (1-based) of the ready lists.
whoosh_document(rdy, k) ==
    [id          |-> rdy.ids[k],
     content     |-> rdy.texts[k],
     page_number |-> rdy.metadatas[k].page_number,
     source      |-> rdy.metadatas[k].source]

\* The writer with the added documents of the failed batch taken back.
writer_rolled_back(pending, added_in_batch) ==
    SubSeq(pending, 1, Len(pending) - added_in_batch)

\* indexer.py:78-89 -- the writer after add_document raised in a batch of
\* which added_in_batch documents had gone in: the except branch only
\* prints, the documents already added stay in the writer.
writer_after_failure(pending, added_in_batch) == pending

\* indexer.py:92 -- writer.commit(): the documents added through
\* add_document are appended to the index; add_document does not look for
\* an existing document of the same id.
commit(index, pending) == index \o pending

notWhooshVars == <<indexVars, expandVars, rankVars, queryVars, chunkVars,
                 scoreVars,
                 dbqVars,
                 bucketVars,
                 limiterVars>>

\* indexer.py:4-9 -- an Indexer over a new lexical index.
InitWhoosh ==
    /\ w_chunked_content \in SeqsUpTo(WhooshChunkPool, MaxChunks)
    /\ w_batch_size \in BatchSizes
    /\ whoosh_index = <<>> /\ writer = <<>>
    /\ w_ready = EmptyReady /\ w_i = 0 /\ w_j = 0
    /\ w_failed = <<>> /\ w_raised = "no" /\ w_run = 0
    /\ wpc = "new"
    /\ IndexIdle /\ ExpandIdle /\ RankIdle /\ QueryIdle /\ ChunkIdle /\ ScoreIdle /\ DBQIdle /\ BucketIdle /\ LimiterIdle

\* indexer.py:63 -- index_whoosh() is called (again): get_ready() returns.
WhooshCall ==
    /\ wpc \in {"new", "returned"}
    /\ w_run < MaxWhooshRuns
    /\ \A k \in 1..Len(w_chunked_content) : usable(w_chunked_content[k])
    /\ w_ready' = Indexer_get_ready(w_chunked_content)
    /\ w_run' = w_run + 1
    /\ w_failed' = <<>>
    /\ wpc' = "open"
    /\ UNCHANGED <<w_chunked_content, w_batch_size, whoosh_index, writer,
                   w_i, w_j, w_raised>>
    /\ UNCHANGED notWhooshVars

\* indexer.py:63 with 18-19 -- get_ready() raises on a chunk without usable
\* content; index_whoosh has no handler around it.
WhooshGetReadyError ==
    /\ wpc \in {"new", "returned"}
    /\ w_run < MaxWhooshRuns
    /\ \E k \in 1..Len(w_chunked_content) : ~usable(w_chunked_content[k])
    /\ w_run' = w_run + 1
    /\ w_raised' = "get_ready"
    /\ wpc' = "raised"
    /\ UNCHANGED <<w_chunked_content, w_batch_size, whoosh_index, writer,
                   w_ready, w_i, w_j, w_failed>>
    /\ UNCHANGED notWhooshVars

\* indexer.py:67-70 -- the writer is opened, the batch loop starts.
WhooshOpenWriter ==
    /\ wpc = "open"
    /\ writer' = <<>>
    /\ w_i' = 0 /\ w_j' = 0
    /\ wpc' = "batch"
    /\ UNCHANGED <<w_chunked_content, w_batch_size, whoosh_index, w_ready,
                   w_failed, w_raised, w_run>>
    /\ UNCHANGED notWhooshVars

\* indexer.py:67 -- self.whoosh_index.writer() raises (index locked or
\* unavailable); the call is outside every try.
WhooshOpenWriterError ==
    /\ wpc = "open"
    /\ w_raised' = "writer"
    /\ wpc' = "raised"
    /\ UNCHANGED <<w_chunked_content, w_batch_size, whoosh_index, writer,
                   w_ready, w_i, w_j, w_failed, w_run>>
    /\ UNCHANGED notWhooshVars

\* indexer.py:71 -- end_idx of the current batch.
WhooshBatchEnd == Min(w_i + w_batch_size, Len(w_ready.ids))

\* indexer.py:79-86 -- add_document succeeds for document j of the batch;
\* after the last document of the batch the loop moves to the next batch.
WhooshAddDocument ==
    /\ wpc = "batch" /\ w_i < Len(w_ready.ids)
    /\ writer' = Append(writer, whoosh_document(w_ready, w_i + w_j + 1))
    /\ IF w_i + w_j + 1 = WhooshBatchEnd
       THEN w_i' = w_i + w_batch_size /\ w_j' = 0
       ELSE w_i' = w_i /\ w_j' = w_j + 1
    /\ UNCHANGED <<w_chunked_content, w_batch_size, whoosh_index, w_ready,
                   w_failed, w_raised, w_run, wpc>>
    /\ UNCHANGED notWhooshVars

\* indexer.py:79-89 -- add_document raises for document j of the batch: the
\* except branch prints, the loop moves to the next batch.
WhooshAddDocumentError ==
    /\ wpc = "batch" /\ w_i < Len(w_ready.ids)
    /\ writer' = writer_after_failure(writer, w_j)
    /\ w_failed' = Append(w_failed, [lo |-> w_i, hi |-> WhooshBatchEnd, at |-> w_j])
    /\ w_i' = w_i + w_batch_size /\ w_j' = 0
    /\ UNCHANGED <<w_chunked_content, w_batch_size, whoosh_index, w_ready,
                   w_raised, w_run, wpc>>
    /\ UNCHANGED notWhooshVars

\* indexer.py:92-94 -- the loop is over: commit and return.
WhooshCommit ==
    /\ wpc = "batch" /\ w_i >= Len(w_ready.ids)
    /\ whoosh_index' = commit(whoosh_index, writer)
    /\ writer' = <<>>
    /\ wpc' = "returned"
    /\ UNCHANGED <<w_chunked_content, w_batch_size, w_ready, w_i, w_j,
                   w_failed, w_raised, w_run>>
    /\ UNCHANGED notWhooshVars

\* indexer.py:92 -- writer.commit() raises; the call is outside every try,
\* nothing of this call reaches the index.
WhooshCommitError ==
    /\ wpc = "batch" /\ w_i >= Len(w_ready.ids)
    /\ w_raised' = "commit"
    /\ wpc' = "raised"
    /\ UNCHANGED <<w_chunked_content, w_batch_size, whoosh_index, writer,
                   w_ready, w_i, w_j, w_failed, w_run>>
    /\ UNCHANGED notWhooshVars

NextWhoosh ==
    \/ WhooshCall
    \/ WhooshGetReadyError
    \/ WhooshOpenWriter
    \/ WhooshOpenWriterError
    \/ WhooshAddDocument
    \/ WhooshAddDocumentError
    \/ WhooshCommit
    \/ WhooshCommitError

SpecWhoosh == InitWhoosh /\ [][NextWhoosh]_vars

\* ------------------------------------------------------------------------
\* Lexical indexing: properties
\* ------------------------------------------------------------------------
WhooshIds == {whoosh_index[k].id : k \in 1..Len(whoosh_index)}

\* C16 -- After index_whoosh() has run twice over the same chunk set the
\* lexical index holds exactly one document per distinct content hash: no
\* id occurs in two documents.
C16_WhooshReindexIsIdempotent ==
    (w_run = 2 /\ wpc = "returned") =>
        \A a, b \in 1..Len(whoosh_index) :
            a # b => whoosh_index[a].id # whoosh_index[b].id

\* Entry k (0-based) of the ready lists lies in a batch that failed.
InFailedBatch(k) ==
    \E f \in 1..Len(w_failed) : w_failed[f].lo <= k /\ k < w_failed[f].hi

\* Entry k (0-based) was added to the writer before its batch failed.
AddedBeforeFailure(k) ==
    \E f \in 1..Len(w_failed) :
        w_failed[f].lo <= k /\ k < w_failed[f].lo + w_failed[f].at

\* C17 (as claimed) -- after a first index_whoosh() call, no document of a
\* batch in which add_document failed is in the committed index, and every
\* document of the other batches is.
C17_FailedBatchIsAbsent ==
    (w_run = 1 /\ wpc = "returned") =>
        \A k \in 0..(Len(w_ready.ids) - 1) :
            (w_ready.ids[k + 1] \in WhooshIds) <=> ~InFailedBatch(k)

\* C17 (amended) -- a failing add_document ends its batch without taking
\* anything back: the documents of the batch added before the failing one
\* are committed, the failing one and the rest of the batch are not, and
\* every document of the batches without a failure is committed.
C17_FailedBatchIsCutShort ==
    (w_run = 1 /\ wpc = "returned") =>
        \A k \in 0..(Len(w_ready.ids) - 1) :
            (w_ready.ids[k + 1] \in WhooshIds)
                <=> (~InFailedBatch(k) \/ AddedBeforeFailure(k))

\* C17 witness: a first call has returned; a batch failed at its second
\* document, its first document is in the index and its second is not,
\* while another batch went in whole.
C17_Witness ==
    /\ w_run = 1 /\ wpc = "returned"
    /\ \E f \in 1..Len(w_failed) :
           /\ w_failed[f].at = 1
           /\ w_ready.ids[w_failed[f].lo + 1] \in WhooshIds
           /\ w_ready.ids[w_failed[f].lo + 2] \notin WhooshIds
    /\ \E k \in 0..(Len(w_ready.ids) - 1) :
           ~InFailedBatch(k) /\ w_ready.ids[k + 1] \in WhooshIds

\* C18 -- index_whoosh() (like index()) never raises: a chunk without
\* usable content, a failing batch write, a failure to open the writer and
\* a failure of the final commit are all recovered inside the call.
C18_IndexWhooshNeverRaises ==
    w_raised = "no" /\ wpc # "raised"

\* ------------------------------------------------------------------------
\* Answering one question: the hand-over to the LLM
\* ------------------------------------------------------------------------
\* C21 -- llm.ask is never invoked with an empty context string: when the
\* assembled context is empty the condition is surfaced distinctly instead.
C21_EmptyContextIsNotAsked ==
    asked => context # <<>>

\* ------------------------------------------------------------------------
\* Scoring one passage (utilities.py:75-80)
\* ------------------------------------------------------------------------
MaxScoreLen == 3

ScoreAlphabet == {"$", "5", ".", "%", "K"}

\* The passage of the worked example: Rate is $5.20 and increased by 12%
\* over 2 years
P_rate ==
    <<"R", "a", "t", "e", " ", "i", "s", " ", "$", "5", ".", "2", "0", " ", "a", "n", "d", " ", "i", "n", "c", "r", "e", "a", "s", "e", "d", " ", "b", "y", " ", "1", "2", "%", " ", "o", "v", "e", "r", " ", "2", " ", "y", "e", "a", "r", "s">>

notScoreVars == <<indexVars, expandVars, rankVars, queryVars, chunkVars,
                  whooshVars,
                 dbqVars,
                 bucketVars,
                 limiterVars>>

InitScore ==
    /\ sc_text \in SeqsUpTo(ScoreAlphabet, MaxScoreLen) \cup {P_rate}
    /\ sc_value = 0
    /\ spc = "ready"
    /\ IndexIdle /\ ExpandIdle /\ RankIdle /\ QueryIdle /\ ChunkIdle /\ WhooshIdle /\ DBQIdle /\ BucketIdle /\ LimiterIdle

\* utilities.py:75-80 -- score_numeric_richness(text) is called.
ScoreText ==
    /\ spc = "ready"
    /\ sc_value' = score_numeric_richness(sc_text)
    /\ spc' = "scored"
    /\ UNCHANGED sc_text
    /\ UNCHANGED notScoreVars

NextScore == ScoreText

SpecScore == InitScore /\ [][NextScore]_vars

\* C22 (as claimed) -- the passage of the worked example scores 11: one
\* currency amount, one percentage and three bare numbers.
C22_ExampleScoresEleven ==
    (spc = "scored" /\ sc_text = P_rate) => sc_value = 5 * 1 + 3 * 1 + 1 * 3

\* C22 (amended) -- the passage of the worked example scores 12: one
\* currency amount ($5.20), one percentage (12%) and four digit runs (5, 20,
\* 12, 2), the digits inside the amount and the percentage being counted
\* again as numbers.
C22_ExampleScoresTwelve ==
    (spc = "scored" /\ sc_text = P_rate) =>
        /\ sc_value = 5 * 1 + 3 * 1 + 1 * 4
        /\ count_money(sc_text, 1) = 1
        /\ count_percent(sc_text, 1) = 1
        /\ count_number(sc_text, 1) = 4

\* C22 witness: the passage of the worked example has been scored.
C22_Witness ==
    spc = "scored" /\ sc_text = P_rate /\ sc_value > 0

\* ------------------------------------------------------------------------
\* Indexing: what is submitted (properties)
\* ------------------------------------------------------------------------
\* All ids handed to collection.add during the current index() call, in
\* submission order.
RECURSIVE SubmittedIds(_)
SubmittedIds(log) ==
    IF log = <<>> THEN <<>> ELSE Head(log).batch.ids \o SubmittedIds(Tail(log))

\* C23 -- DB.index() of src/db.py submits each content-hash id at most once
\* per call, also when the chunk list repeats a content.
C23_DBIndexSubmitsEachIdOnce ==
    (impl = "DB") =>
        \A a, b \in 1..Len(SubmittedIds(submitted)) :
            a # b => SubmittedIds(submitted)[a] # SubmittedIds(submitted)[b]

\* ceil(n / b) for n >= 0, b >= 1.
CeilDiv(n, b) == (n + b - 1) \div b

\* C24 -- For the deduplicated list of n entries and batch_size b,
\* Indexer.index() submits exactly ceil(n/b) batches in increasing position
\* order; batch k is the contiguous slice from (k-1)*b of at most b entries
\* (exactly b but for the last), its ids, texts and metadatas are those of
\* the same positions of the list, and every entry is in exactly one batch.
C24_BatchesPartitionTheList ==
    (impl = "Indexer") =>
        LET n == Len(ready.ids) IN
        /\ (ipc = "done") => Len(submitted) = CeilDiv(n, batch_size)
        /\ \A k \in 1..Len(submitted) :
               LET b == submitted[k] IN
               /\ b.lo = (k - 1) * batch_size
               /\ b.hi = Min(k * batch_size, n)
               /\ Len(b.batch.ids) = b.hi - b.lo
               /\ Len(b.batch.texts) = b.hi - b.lo
               /\ Len(b.batch.metadatas) = b.hi - b.lo
               /\ 1 <= b.hi - b.lo /\ b.hi - b.lo <= batch_size
               /\ (k < CeilDiv(n, batch_size)) => (b.hi - b.lo = batch_size)
               /\ \A j \in 1..(b.hi - b.lo) :
                      /\ b.batch.ids[j] = ready.ids[b.lo + j]
                      /\ b.batch.texts[j] = ready.texts[b.lo + j]
                      /\ b.batch.metadatas[j] = ready.metadatas[b.lo + j]
                      /\ b.batch.ids[j] = blake2b(b.batch.texts[j])
        /\ (ipc = "done") =>
               \A e \in 1..n :
                   Cardinality({k \in 1..Len(submitted) :
                                   submitted[k].lo < e /\ e <= submitted[k].hi}) = 1

\* C24 witness: index() has returned after three entries went out in two
\* batches, a full one and a shorter last one.
C24_Witness ==
    /\ impl = "Indexer" /\ ipc = "done"
    /\ Len(ready.ids) = 3 /\ batch_size = 2
    /\ Len(submitted) = 2
    /\ Len(submitted[2].batch.ids) = 1

\* ------------------------------------------------------------------------
\* Chunker.chunk called again (properties)
\* ------------------------------------------------------------------------
\* C29 -- A second chunk() call on the same Chunker returns a sequence equal
\* to the one the first call returned.
C29_SecondCallReturnsTheSame ==
    (cpc = "returned" /\ chunk_calls = 2) => chunk_result = first_result

\* ------------------------------------------------------------------------
\* DB.query (src/db.py:65-82, src/langchain/db.py:66-83)
\* ------------------------------------------------------------------------
MaxQueries == 2

QueryTexts == { <<"b">>, <<"c">> }

TopKs == {1, 2, 5}

\* Every list of the retrieval joined into one.
RECURSIVE returned_documents_all(_)
returned_documents_all(r) ==
    IF r = <<>> THEN <<>> ELSE Head(r) \o returned_documents_all(Tail(r))

\* db.py:78 -- retreival["documents"][0]: the list for the first query text.
returned_documents(r) == r[1]

notDbqVars == <<indexVars, expandVars, rankVars, queryVars, chunkVars,
                whooshVars, scoreVars,
                 bucketVars,
                 limiterVars>>

\* A DB whose collection holds some documents, and the arguments of one
\* query() call.
InitDBQuery ==
    /\ dq_docs \in DenseCorpora
    /\ dq_queries \in SeqsUpTo(QueryTexts, MaxQueries)
    /\ dq_top_k \in TopKs
    /\ retreival = <<>> /\ dq_result = [returned |-> "nothing"]
    /\ dqpc = "called"
    /\ IndexIdle /\ ExpandIdle /\ RankIdle /\ QueryIdle /\ ChunkIdle /\ WhooshIdle /\ ScoreIdle /\ BucketIdle /\ LimiterIdle

\* db.py:68-71 -- count == 0: warning, return None.
DBQueryEmpty ==
    /\ dqpc = "called"
    /\ Len(dq_docs) = 0
    /\ dq_result' = [returned |-> "None"]
    /\ dqpc' = "returned"
    /\ UNCHANGED <<dq_docs, dq_queries, dq_top_k, retreival>>
    /\ UNCHANGED notDbqVars

\* db.py:73-78 -- collection.query answers with one list of
\* n_results = min(top_k, count) documents per query text; the list of the
\* first query text is returned.
DBQueryOk ==
    /\ dqpc = "called"
    /\ Len(dq_docs) > 0
    /\ Len(dq_queries) > 0
    /\ \E documents \in [1..Len(dq_queries) -> dense_results(dq_docs, dq_top_k)] :
           /\ retreival' = documents
           /\ dq_result' = [returned |-> "list",
                            documents |-> returned_documents(documents)]
    /\ dqpc' = "returned"
    /\ UNCHANGED <<dq_docs, dq_queries, dq_top_k>>
    /\ UNCHANGED notDbqVars

\* db.py:67-69, 73-76, 80-82 -- collection.count or collection.query raises
\* (always so for an empty list of query texts): the error is printed and
\* None is returned.
DBQueryError ==
    /\ dqpc = "called"
    /\ dq_result' = [returned |-> "None"]
    /\ dqpc' = "returned"
    /\ UNCHANGED <<dq_docs, dq_queries, dq_top_k, retreival>>
    /\ UNCHANGED notDbqVars

NextDBQuery ==
    \/ DBQueryEmpty
    \/ DBQueryOk
    \/ DBQueryError

SpecDBQuery == InitDBQuery /\ [][NextDBQuery]_vars

\* C30 -- What DB.query returns as a list is exactly the list retrieved for
\* queries[0], of at most min(top_k, count) passages; the lists of the later
\* query texts are not part of it.
C30_QueryReturnsFirstQueryOnly ==
    (dqpc = "returned" /\ dq_result.returned = "list") =>
        /\ dq_result.documents = retreival[1]
        /\ Len(dq_result.documents) <= Min(dq_top_k, Len(dq_docs))
        /\ Len(retreival) = Len(dq_queries)

\* C30 witness: two query texts against three documents with top_k = 2;
\* the second text retrieved a passage that the first did not, and it is
\* not in the returned list.
C30_Witness ==
    /\ dqpc = "returned" /\ dq_result.returned = "list"
    /\ Len(dq_queries) = 2 /\ dq_top_k = 2 /\ Len(dq_docs) = 3
    /\ Len(dq_result.documents) = 2
    /\ \E k \in 1..Len(retreival[2]) :
           /\ retreival[2][k] \notin Range(retreival[1])
           /\ retreival[2][k] \notin Range(dq_result.documents)

\* ------------------------------------------------------------------------
\* TokenBucket (src/llamindex/utils/rate_limiter.py)
\* ------------------------------------------------------------------------
MaxCapacity == 2

MaxNeeded == 2

MaxTime == 2

BucketThreads == {1, 2}

RefillRates == {0, 1}

\* A lock that any thread can take at any time.
lock_not_exclusive(holder) == TRUE

\* rate_limiter.py:17, 38, 54 -- threading.Lock: "with self.lock" is entered
\* only while no thread holds the lock.
lock_is_free(holder) == holder = 0

\* rate_limiter.py:21-26 -- the token count after _refill at time now.
refilled(count, cap, rate, last, now) == Min(cap, count + (now - last) * rate)

notBucketVars == <<indexVars, expandVars, rankVars, queryVars, chunkVars,
                   whooshVars, scoreVars, dbqVars,
                 limiterVars>>

\* rate_limiter.py:5-17 -- a full bucket has been constructed.
InitBucket ==
    /\ capacity \in 1..MaxCapacity
    /\ tokens = capacity
    /\ refill_rate_per_second \in RefillRates
    /\ last_refill_time = 0 /\ monotonic = 0
    /\ lock = 0
    /\ tb_op = [t \in BucketThreads |-> "none"]
    /\ tokens_needed = [t \in BucketThreads |-> 0]
    /\ at_entry = [t \in BucketThreads |-> 0]
    /\ tb_result = [t \in BucketThreads |-> "none"]
    /\ tbpc = [t \in BucketThreads |-> "idle"]
    /\ IndexIdle /\ ExpandIdle /\ RankIdle /\ QueryIdle /\ ChunkIdle /\ WhooshIdle /\ ScoreIdle /\ DBQIdle /\ LimiterIdle

\* rate_limiter.py:29, 46 -- a thread calls try_acquire or acquire.
BucketCall ==
    \E t \in BucketThreads : \E op \in {"try_acquire", "acquire"} :
    \E needed \in 1..MaxNeeded :
        /\ tbpc[t] = "idle"
        /\ tb_op' = [tb_op EXCEPT ![t] = op]
        /\ tokens_needed' = [tokens_needed EXCEPT ![t] = needed]
        /\ tbpc' = [tbpc EXCEPT ![t] = "with"]
        /\ UNCHANGED <<capacity, tokens, refill_rate_per_second,
                       last_refill_time, lock, monotonic, at_entry, tb_result>>
        /\ UNCHANGED notBucketVars

\* rate_limiter.py:38, 54 -- with self.lock: the thread takes the lock.
BucketLock ==
    \E t \in BucketThreads :
        /\ tbpc[t] = "with"
        /\ lock_is_free(lock)
        /\ lock' = t
        /\ at_entry' = [at_entry EXCEPT ![t] = tokens]
        /\ tbpc' = [tbpc EXCEPT ![t] = "refill"]
        /\ UNCHANGED <<capacity, tokens, refill_rate_per_second,
                       last_refill_time, monotonic, tb_op, tokens_needed,
                       tb_result>>
        /\ UNCHANGED notBucketVars

\* rate_limiter.py:19-27, 39, 55 -- self._refill().
BucketRefill ==
    \E t \in BucketThreads :
        /\ tbpc[t] = "refill"
        /\ tokens' = refilled(tokens, capacity, refill_rate_per_second,
                              last_refill_time, monotonic)
        /\ last_refill_time' = monotonic
        /\ tbpc' = [tbpc EXCEPT ![t] = "if"]
        /\ UNCHANGED <<capacity, refill_rate_per_second, lock, monotonic, tb_op,
                       tokens_needed, at_entry, tb_result>>
        /\ UNCHANGED notBucketVars

\* rate_limiter.py:40, 56 -- if self.tokens >= tokens_needed: true.
BucketEnough ==
    \E t \in BucketThreads :
        /\ tbpc[t] = "if"
        /\ tokens >= tokens_needed[t]
        /\ tbpc' = [tbpc EXCEPT ![t] = "take"]
        /\ UNCHANGED <<capacity, tokens, refill_rate_per_second,
                       last_refill_time, lock, monotonic, tb_op, tokens_needed,
                       at_entry, tb_result>>
        /\ UNCHANGED notBucketVars

\* rate_limiter.py:41-42, 57-58 -- self.tokens -= tokens_needed, then
\* return (True from try_acquire); the lock is released on the way out.
BucketTake(t) ==
    /\ tbpc[t] = "take"
    /\ tokens' = tokens - tokens_needed[t]
    /\ tb_result' = [tb_result EXCEPT ![t] =
                        IF tb_op[t] = "try_acquire" THEN "True" ELSE "returned"]
    /\ lock' = 0
    /\ tbpc' = [tbpc EXCEPT ![t] = "idle"]
    /\ UNCHANGED <<capacity, refill_rate_per_second, last_refill_time,
                   monotonic, tb_op, tokens_needed, at_entry>>
    /\ UNCHANGED notBucketVars

BucketGranted == \E t \in BucketThreads : BucketTake(t)

\* rate_limiter.py:40, 43 -- try_acquire without enough tokens: return
\* False; the lock is released on the way out.
BucketDeny(t) ==
    /\ tbpc[t] = "if" /\ tb_op[t] = "try_acquire"
    /\ tokens < tokens_needed[t]
    /\ tb_result' = [tb_result EXCEPT ![t] = "False"]
    /\ lock' = 0
    /\ tbpc' = [tbpc EXCEPT ![t] = "idle"]
    /\ UNCHANGED <<capacity, tokens, refill_rate_per_second, last_refill_time,
                   monotonic, tb_op, tokens_needed, at_entry>>
    /\ UNCHANGED notBucketVars

BucketDenied == \E t \in BucketThreads : BucketDeny(t)

\* rate_limiter.py:53-60 -- acquire without enough tokens: the with block
\* ends, the lock is released and the thread sleeps 0.1 s.
BucketSleep ==
    \E t \in BucketThreads :
        /\ tbpc[t] = "if" /\ tb_op[t] = "acquire"
        /\ tokens < tokens_needed[t]
        /\ lock' = 0
        /\ tbpc' = [tbpc EXCEPT ![t] = "sleep"]
        /\ UNCHANGED <<capacity, tokens, refill_rate_per_second,
                       last_refill_time, monotonic, tb_op, tokens_needed,
                       at_entry, tb_result>>
        /\ UNCHANGED notBucketVars

\* rate_limiter.py:53, 60 -- the sleep is over: next turn of while True.
BucketWake ==
    \E t \in BucketThreads :
        /\ tbpc[t] = "sleep"
        /\ tbpc' = [tbpc EXCEPT ![t] = "with"]
        /\ UNCHANGED <<capacity, tokens, refill_rate_per_second,
                       last_refill_time, lock, monotonic, tb_op, tokens_needed,
                       at_entry, tb_result>>
        /\ UNCHANGED notBucketVars

\* time.monotonic() advances.
BucketTick ==
    /\ monotonic < MaxTime
    /\ monotonic' = monotonic + 1
    /\ UNCHANGED <<capacity, tokens, refill_rate_per_second, last_refill_time,
                   lock, tb_op, tokens_needed, at_entry, tb_result, tbpc>>
    /\ UNCHANGED notBucketVars

NextBucket ==
    \/ BucketCall
    \/ BucketLock
    \/ BucketRefill
    \/ BucketEnough
    \/ BucketGranted
    \/ BucketDenied
    \/ BucketSleep
    \/ BucketWake
    \/ BucketTick

SpecBucket == InitBucket /\ [][NextBucket]_vars

\* C28 -- Under every interleaving of try_acquire and acquire calls on one
\* TokenBucket: 0 <= tokens <= capacity always; a call is granted only by
\* taking tokens_needed from a count that is at least tokens_needed at that
\* moment; a try_acquire that returns False does not lower the count.
C28_TokenBucketIsThreadSafe ==
    /\ [](0 <= tokens /\ tokens <= capacity)
    /\ [][ \A t \in BucketThreads :
             BucketTake(t) => /\ tokens >= tokens_needed[t]
                              /\ tokens' = tokens - tokens_needed[t] ]_vars
    /\ [][ \A t \in BucketThreads :
             BucketDeny(t) => /\ tokens' = tokens
                              /\ tokens' >= at_entry[t] ]_vars

\* C28 witness: both threads have finished a call, one granted and one
\* refused, while the bucket is empty.
C28_Witness ==
    /\ tb_result[1] \in {"True", "returned"}
    /\ tb_result[2] = "False"
    /\ tokens = 0
    /\ tbpc = [t \in BucketThreads |-> "idle"]

\* ------------------------------------------------------------------------
\* rate_limited (src/llamindex/regulatory_tool_calling_test.py:32-81)
\* ------------------------------------------------------------------------
MaxCallsPerMinute == 2

MaxWallClock == 120

\* regulatory_tool_calling_test.py:45, 51 -- the length of the window.
window_seconds == 60

\* Steps by which the modelled clock advances.
ClockSteps == {30, 60}

\* regulatory_tool_calling_test.py:704-705 -- max_workers = min(2, ...): the
\* pool threads that run analyze_document_relevance.
Workers == {1, 2}

notLimiterVars == <<indexVars, expandVars, rankVars, queryVars, chunkVars,
                    whooshVars, scoreVars, dbqVars, bucketVars>>

\* regulatory_tool_calling_test.py:34-36 -- the decorator has been applied.
InitLimiter ==
    /\ max_calls_per_minute \in 1..MaxCallsPerMinute
    /\ last_reset = 0 /\ call_count = 0 /\ wall_clock = 0
    /\ current_time = [w \in Workers |-> 0]
    /\ wake_at = [w \in Workers |-> 0]
    /\ time_read = [w \in Workers |-> 0]
    /\ loaded_count = [w \in Workers |-> 0]
    /\ passed = 0
    /\ rlpc = [w \in Workers |-> "idle"]
    /\ IndexIdle /\ ExpandIdle /\ RankIdle /\ QueryIdle /\ ChunkIdle /\ WhooshIdle /\ ScoreIdle /\ DBQIdle /\ BucketIdle

\* regulatory_tool_calling_test.py:39-42 -- a worker enters wrapper and
\* reads the time.
LimiterEnter ==
    \E w \in Workers :
        /\ rlpc[w] = "idle"
        /\ current_time' = [current_time EXCEPT ![w] = wall_clock]
        /\ rlpc' = [rlpc EXCEPT ![w] = "reset?"]
        /\ UNCHANGED <<max_calls_per_minute, last_reset, call_count, wall_clock,
                       wake_at, time_read, loaded_count, passed>>
        /\ UNCHANGED notLimiterVars

\* regulatory_tool_calling_test.py:45 -- the test reads last_reset: a
\* minute has passed.
LimiterReset ==
    \E w \in Workers :
        /\ rlpc[w] = "reset?"
        /\ current_time[w] - last_reset >= window_seconds
        /\ rlpc' = [rlpc EXCEPT ![w] = "reset last_reset"]
        /\ UNCHANGED <<max_calls_per_minute, last_reset, call_count, wall_clock,
                       current_time, wake_at, time_read, loaded_count, passed>>
        /\ UNCHANGED notLimiterVars

\* regulatory_tool_calling_test.py:46 -- last_reset = current_time.
LimiterResetLastReset ==
    \E w \in Workers :
        /\ rlpc[w] = "reset last_reset"
        /\ last_reset' = current_time[w]
        /\ rlpc' = [rlpc EXCEPT ![w] = "reset call_count"]
        /\ UNCHANGED <<max_calls_per_minute, call_count, wall_clock,
                       current_time, wake_at, time_read, loaded_count, passed>>
        /\ UNCHANGED notLimiterVars

\* regulatory_tool_calling_test.py:47 -- call_count = 0.
LimiterResetCallCount ==
    \E w \in Workers :
        /\ rlpc[w] = "reset call_count"
        /\ call_count' = 0
        /\ passed' = 0
        /\ rlpc' = [rlpc EXCEPT ![w] = "limit?"]
        /\ UNCHANGED <<max_calls_per_minute, last_reset, wall_clock,
                       current_time, wake_at, time_read, loaded_count>>
        /\ UNCHANGED notLimiterVars

\* regulatory_tool_calling_test.py:45 -- less than a minute: no reset.
LimiterNoReset ==
    \E w \in Workers :
        /\ rlpc[w] = "reset?"
        /\ current_time[w] - last_reset < window_seconds
        /\ rlpc' = [rlpc EXCEPT ![w] = "limit?"]
        /\ UNCHANGED <<max_calls_per_minute, last_reset, call_count, wall_clock,
                       current_time, wake_at, time_read, loaded_count, passed>>
        /\ UNCHANGED notLimiterVars

\* regulatory_tool_calling_test.py:50 -- the test reads call_count: the
\* limit is reached.
LimiterAtLimit ==
    \E w \in Workers :
        /\ rlpc[w] = "limit?"
        /\ call_count >= max_calls_per_minute
        /\ rlpc' = [rlpc EXCEPT ![w] = "sleep_time"]
        /\ UNCHANGED <<max_calls_per_minute, last_reset, call_count, wall_clock,
                       current_time, wake_at, time_read, loaded_count, passed>>
        /\ UNCHANGED notLimiterVars

\* regulatory_tool_calling_test.py:51-54 -- sleep_time is computed from
\* last_reset as it is now; there is time left in the window: sleep for
\* the rest of it.
LimiterWait ==
    \E w \in Workers :
        /\ rlpc[w] = "sleep_time"
        /\ window_seconds - (current_time[w] - last_reset) > 0
        /\ wake_at' = [wake_at EXCEPT ![w] =
                          wall_clock + window_seconds
                                     - (current_time[w] - last_reset)]
        /\ rlpc' = [rlpc EXCEPT ![w] = "sleep"]
        /\ UNCHANGED <<max_calls_per_minute, last_reset, call_count, wall_clock,
                       current_time, time_read, loaded_count, passed>>
        /\ UNCHANGED notLimiterVars

\* regulatory_tool_calling_test.py:51-52 -- no time left in the window: no
\* sleep and no reset, on to the jitter sleep.
LimiterNoWait ==
    \E w \in Workers :
        /\ rlpc[w] = "sleep_time"
        /\ window_seconds - (current_time[w] - last_reset) <= 0
        /\ rlpc' = [rlpc EXCEPT ![w] = "jitter"]
        /\ UNCHANGED <<max_calls_per_minute, last_reset, call_count, wall_clock,
                       current_time, wake_at, time_read, loaded_count, passed>>
        /\ UNCHANGED notLimiterVars

\* regulatory_tool_calling_test.py:54-55 -- the sleep is over and
\* time.time() is read.
LimiterWake ==
    \E w \in Workers :
        /\ rlpc[w] = "sleep"
        /\ wall_clock >= wake_at[w]
        /\ time_read' = [time_read EXCEPT ![w] = wall_clock]
        /\ wake_at' = [wake_at EXCEPT ![w] = 0]
        /\ rlpc' = [rlpc EXCEPT ![w] = "wake last_reset"]
        /\ UNCHANGED <<max_calls_per_minute, last_reset, call_count, wall_clock,
                       current_time, loaded_count, passed>>
        /\ UNCHANGED notLimiterVars

\* regulatory_tool_calling_test.py:55 -- last_reset = the time read.
LimiterWakeLastReset ==
    \E w \in Workers :
        /\ rlpc[w] = "wake last_reset"
        /\ last_reset' = time_read[w]
        /\ time_read' = [time_read EXCEPT ![w] = 0]
        /\ rlpc' = [rlpc EXCEPT ![w] = "wake call_count"]
        /\ UNCHANGED <<max_calls_per_minute, call_count, wall_clock,
                       current_time, wake_at, loaded_count, passed>>
        /\ UNCHANGED notLimiterVars

\* regulatory_tool_calling_test.py:56 -- call_count = 0.
LimiterWakeCallCount ==
    \E w \in Workers :
        /\ rlpc[w] = "wake call_count"
        /\ call_count' = 0
        /\ passed' = 0
        /\ rlpc' = [rlpc EXCEPT ![w] = "jitter"]
        /\ UNCHANGED <<max_calls_per_minute, last_reset, wall_clock,
                       current_time, wake_at, time_read, loaded_count>>
        /\ UNCHANGED notLimiterVars

\* regulatory_tool_calling_test.py:50, 58-60 -- the test reads call_count:
\* below the limit, on to the jitter sleep.
LimiterProceed ==
    \E w \in Workers :
        /\ rlpc[w] = "limit?"
        /\ call_count < max_calls_per_minute
        /\ rlpc' = [rlpc EXCEPT ![w] = "jitter"]
        /\ UNCHANGED <<max_calls_per_minute, last_reset, call_count, wall_clock,
                       current_time, wake_at, time_read, loaded_count, passed>>
        /\ UNCHANGED notLimiterVars

\* regulatory_tool_calling_test.py:59-62 -- after the jitter sleep,
\* call_count += 1 reads call_count.
LimiterLoad ==
    \E w \in Workers :
        /\ rlpc[w] = "jitter"
        /\ loaded_count' = [loaded_count EXCEPT ![w] = call_count]
        /\ rlpc' = [rlpc EXCEPT ![w] = "store"]
        /\ UNCHANGED <<max_calls_per_minute, last_reset, call_count, wall_clock,
                       current_time, wake_at, time_read, passed>>
        /\ UNCHANGED notLimiterVars

\* regulatory_tool_calling_test.py:62-78 -- call_count += 1 writes the sum
\* back and the worker goes on to call func.
LimiterStore ==
    \E w \in Workers :
        /\ rlpc[w] = "store"
        /\ call_count' = loaded_count[w] + 1
        /\ passed' = passed + 1
        /\ rlpc' = [rlpc EXCEPT ![w] = "idle"]
        /\ UNCHANGED <<max_calls_per_minute, last_reset, wall_clock,
                       current_time, wake_at, time_read, loaded_count>>
        /\ UNCHANGED notLimiterVars

\* time.time() advances.
LimiterTick ==
    \E step \in ClockSteps :
        /\ wall_clock + step <= MaxWallClock
        /\ wall_clock' = wall_clock + step
        /\ UNCHANGED <<max_calls_per_minute, last_reset, call_count,
                       current_time, wake_at, time_read, loaded_count, passed,
                       rlpc>>
        /\ UNCHANGED notLimiterVars

NextLimiter ==
    \/ LimiterEnter
    \/ LimiterReset
    \/ LimiterResetLastReset
    \/ LimiterResetCallCount
    \/ LimiterNoReset
    \/ LimiterAtLimit
    \/ LimiterWait
    \/ LimiterNoWait
    \/ LimiterWake
    \/ LimiterWakeLastReset
    \/ LimiterWakeCallCount
    \/ LimiterProceed
    \/ LimiterLoad
    \/ LimiterStore
    \/ LimiterTick

SpecLimiter == InitLimiter /\ [][NextLimiter]_vars

\* C27 -- Under every interleaving of the workers' wrapper calls, at most
\* max_calls_per_minute calls pass the limiter between two consecutive
\* counter resets.
C27_AtMostNCallsPerWindow ==
    passed <= max_calls_per_minute

====
